---- MODULE Spec2Model ----
(***************************************************************************)
(* Autocalls.uk dynamic logo: the angle mappings of the geometry module    *)
(* (src/src/utils/geometry.js), their inlined copies in the static         *)
(* generation script (src/unnamed/part_000, scripts/generate-static.js)    *)
(* and the places where the two renderers call them (src/src/App.jsx,      *)
(* DynamicLogo; part_000, generateStaticSVG).                              *)
(*                                                                         *)
(* JavaScript numbers are modelled as exact rationals n/d in lowest terms  *)
(* together with NaN, +Infinity and -Infinity; the JavaScript value        *)
(* undefined is a fourth kind that ToNumber turns into NaN.  Binary64      *)
(* rounding and the sign of zero are not modelled.                         *)
(*                                                                         *)
(* Further sections cover the day counts and the ring rotation, the angle  *)
(* normalisation, the angle-to-coordinate convention (cosines and sines of *)
(* rational degrees kept exactly), the arc and segment paths, collision    *)
(* avoidance, the barrier triangle of DynamicLogo, and the file            *)
(* operations of the static script from start to exit.                     *)
(***************************************************************************)
EXTENDS Integers, Sequences, FiniteSets, TLC

-----------------------------------------------------------------------------
(* JavaScript number values *)

Abs(i) == IF i < 0 THEN -i ELSE i

RECURSIVE GCD(_, _)
GCD(a, b) == IF b = 0 THEN a ELSE GCD(b, a % b)

\* n/d in lowest terms, d > 0
Rat(n, d) ==
  LET g == GCD(Abs(n), d)
  IN  [k |-> "fin", n |-> n \div g, d |-> d \div g]

Num(i) == [k |-> "fin", n |-> i, d |-> 1]

NaN == [k |-> "nan", n |-> 0, d |-> 1]

PosInf == [k |-> "inf", n |-> 1, d |-> 1]

NegInf == [k |-> "inf", n |-> -1, d |-> 1]

Undefined == [k |-> "undef", n |-> 0, d |-> 1]

\* ToNumber(undefined) is NaN; numbers are unchanged
ToNumber(v) == IF v.k = "undef" THEN NaN ELSE v

\* Number.isFinite(v): false for undefined, NaN and the infinities
NumberIsFinite(v) == v.k = "fin"

Sign(v) == IF v.n > 0 THEN 1 ELSE IF v.n < 0 THEN -1 ELSE 0

\* a < b for two values that are not NaN
Less(a, b) ==
  IF a.k = "inf" THEN a.n = -1 /\ ~(b.k = "inf" /\ b.n = -1)
  ELSE IF b.k = "inf" THEN b.n = 1
  ELSE a.n * b.d < b.n * a.d

\* the relational operators: every comparison with NaN is false
JsLt(a0, b0) ==
  LET a == ToNumber(a0)
      b == ToNumber(b0)
  IN  a.k # "nan" /\ b.k # "nan" /\ Less(a, b)

JsLe(a0, b0) ==
  LET a == ToNumber(a0)
      b == ToNumber(b0)
  IN  a.k # "nan" /\ b.k # "nan" /\ (a = b \/ Less(a, b))

JsGt(a, b) == JsLt(b, a)

JsGe(a, b) == JsLe(b, a)

JsNeg(a0) ==
  LET a == ToNumber(a0)
  IN  IF a.k = "nan" THEN NaN
      ELSE IF a.k = "inf" THEN (IF a.n = 1 THEN NegInf ELSE PosInf)
      ELSE Rat(-a.n, a.d)

JsAdd(a0, b0) ==
  LET a == ToNumber(a0)
      b == ToNumber(b0)
  IN  IF a.k = "nan" \/ b.k = "nan" THEN NaN
      ELSE IF a.k = "inf" /\ b.k = "inf" THEN (IF a.n = b.n THEN a ELSE NaN)
      ELSE IF a.k = "inf" THEN a
      ELSE IF b.k = "inf" THEN b
      ELSE Rat(a.n * b.d + b.n * a.d, a.d * b.d)

JsSub(a, b) == JsAdd(a, JsNeg(b))

JsMul(a0, b0) ==
  LET a == ToNumber(a0)
      b == ToNumber(b0)
  IN  IF a.k = "nan" \/ b.k = "nan" THEN NaN
      ELSE IF a.k = "inf" \/ b.k = "inf"
           THEN (IF Sign(a) * Sign(b) = 0 THEN NaN
                 ELSE IF Sign(a) * Sign(b) > 0 THEN PosInf ELSE NegInf)
      ELSE Rat(a.n * b.n, a.d * b.d)

JsDiv(a0, b0) ==
  LET a == ToNumber(a0)
      b == ToNumber(b0)
  IN  IF a.k = "nan" \/ b.k = "nan" THEN NaN
      ELSE IF a.k = "inf" /\ b.k = "inf" THEN NaN
      ELSE IF a.k = "inf"
           THEN (IF Sign(a) * Sign(b) < 0 THEN NegInf ELSE PosInf)
      ELSE IF b.k = "inf" THEN Num(0)
      ELSE IF b.n = 0
           THEN (IF a.n = 0 THEN NaN ELSE IF a.n > 0 THEN PosInf ELSE NegInf)
      ELSE Rat(a.n * b.d * Sign(b), a.d * Abs(b.n))

MathAbs(a0) ==
  LET a == ToNumber(a0)
  IN  IF a.k = "nan" THEN NaN
      ELSE IF a.k = "inf" THEN PosInf
      ELSE Rat(Abs(a.n), a.d)

\* Math.max and Math.min return NaN when an argument is NaN
MathMax(a0, b0) ==
  LET a == ToNumber(a0)
      b == ToNumber(b0)
  IN  IF a.k = "nan" \/ b.k = "nan" THEN NaN
      ELSE IF Less(a, b) THEN b ELSE a

MathMin(a0, b0) ==
  LET a == ToNumber(a0)
      b == ToNumber(b0)
  IN  IF a.k = "nan" \/ b.k = "nan" THEN NaN
      ELSE IF Less(b, a) THEN b ELSE a

-----------------------------------------------------------------------------
(* geometry.js *)

\* a plausible slip: the change taken relative to the current level
calculatePerformanceOfCurrent(initialLevel, currentLevel) ==
  JsMul(JsDiv(JsSub(currentLevel, initialLevel), currentLevel), Num(100))

\* calculatePerformance(initialLevel, currentLevel); the script's copy is
\* the same expression
calculatePerformance(initialLevel, currentLevel) ==
  JsMul(JsDiv(JsSub(currentLevel, initialLevel), initialLevel), Num(100))

\* a plausible slip: the factor written as (t - 2)
easeOutQuadSwapped(t) == JsMul(t, JsSub(t, Num(2)))

easeOutQuad(t) == JsMul(t, JsSub(Num(2), t))

\* a plausible slip: only the lower clamp
clampPerformanceLowOnly(performancePercent) ==
  MathMax(Num(-50), performancePercent)

\* Math.max(-50, Math.min(50, performancePercent))
clampPerformance(performancePercent) ==
  MathMax(Num(-50), MathMin(Num(50), performancePercent))

\* the breakpoints of the geometry module's if-chain; piece i runs from
\* breakpoints[i] to breakpoints[i + 1]
breakpoints == <<-50, -30, -15, -5, 0, 5, 15, 30, 50>>

\* the return expression of the i-th branch of mapPerformanceToAngle
perfPiece(i, pct) ==
  CASE i = 1 -> JsAdd(Num(-90), JsMul(JsDiv(JsAdd(pct, Num(30)), Num(20)), Num(30)))
    [] i = 2 -> JsAdd(Num(-60), JsMul(JsDiv(JsAdd(pct, Num(15)), Num(15)), Num(30)))
    [] i = 3 -> JsAdd(Num(-30), JsMul(JsDiv(JsAdd(pct, Num(5)), Num(10)), Num(30)))
    [] i = 4 -> JsMul(JsDiv(pct, Num(5)), Num(30))
    [] i = 5 -> JsMul(JsDiv(pct, Num(5)), Num(30))
    [] i = 6 -> JsAdd(Num(30), JsMul(JsDiv(JsSub(pct, Num(5)), Num(10)), Num(30)))
    [] i = 7 -> JsAdd(Num(60), JsMul(JsDiv(JsSub(pct, Num(15)), Num(15)), Num(30)))
    [] i = 8 -> JsAdd(Num(90), JsMul(JsDiv(JsSub(pct, Num(30)), Num(20)), Num(30)))

\* mapPerformanceToAngle of the geometry module: clamp, then the if-chain
\* (pct <= -30, <= -15, <= -5, <= 0, <= 5, <= 15, <= 30, else); every test
\* is false for NaN, which therefore takes the else branch
mapPerformanceToAngle(performancePercent) ==
  LET pct == clampPerformance(performancePercent)
  IN  IF JsLe(pct, Num(-30)) THEN perfPiece(1, pct)
      ELSE IF JsLe(pct, Num(-15)) THEN perfPiece(2, pct)
      ELSE IF JsLe(pct, Num(-5)) THEN perfPiece(3, pct)
      ELSE IF JsLe(pct, Num(0)) THEN perfPiece(4, pct)
      ELSE IF JsLe(pct, Num(5)) THEN perfPiece(5, pct)
      ELSE IF JsLe(pct, Num(15)) THEN perfPiece(6, pct)
      ELSE IF JsLe(pct, Num(30)) THEN perfPiece(7, pct)
      ELSE perfPiece(8, pct)

\* mapBarrierToAngle of the geometry module delegates to the performance map
mapBarrierToAngle(barrierPercent) == mapPerformanceToAngle(barrierPercent)

\* a plausible slip: the upper clamp typed as 130
clampHurdleTypo(hurdlePercent) ==
  MathMax(Num(50), MathMin(Num(130), hurdlePercent))

\* a plausible slip: only the lower clamp
clampHurdleLowOnly(hurdlePercent) == MathMax(Num(50), hurdlePercent)

\* Math.max(50, Math.min(150, hurdlePercent))
clampHurdle(hurdlePercent) ==
  MathMax(Num(50), MathMin(Num(150), hurdlePercent))

\* mapHurdlePercentToAngle: clamp to 50..150, then eight linear pieces
mapHurdlePercentToAngle(hurdlePercent) ==
  LET pct == clampHurdle(hurdlePercent)
  IN  IF JsLe(pct, Num(70))
        THEN JsAdd(Num(-90), JsMul(JsDiv(JsSub(pct, Num(70)), Num(20)), Num(30)))
      ELSE IF JsLe(pct, Num(85))
        THEN JsAdd(Num(-60), JsMul(JsDiv(JsSub(pct, Num(85)), Num(15)), Num(30)))
      ELSE IF JsLe(pct, Num(95))
        THEN JsAdd(Num(-30), JsMul(JsDiv(JsSub(pct, Num(95)), Num(10)), Num(30)))
      ELSE IF JsLe(pct, Num(100))
        THEN JsMul(JsDiv(JsSub(pct, Num(100)), Num(5)), Num(30))
      ELSE IF JsLe(pct, Num(105))
        THEN JsMul(JsDiv(JsSub(pct, Num(100)), Num(5)), Num(30))
      ELSE IF JsLe(pct, Num(115))
        THEN JsAdd(Num(30), JsMul(JsDiv(JsSub(pct, Num(105)), Num(10)), Num(30)))
      ELSE IF JsLe(pct, Num(130))
        THEN JsAdd(Num(60), JsMul(JsDiv(JsSub(pct, Num(115)), Num(15)), Num(30)))
      ELSE JsAdd(Num(90), JsMul(JsDiv(JsSub(pct, Num(130)), Num(20)), Num(30)))

-----------------------------------------------------------------------------
(* generate-static.js: the inlined copies *)

\* a plausible slip: one angle of the table mistyped
anchorsTypo ==
  << <<-50, -120>>, <<-30, -90>>, <<-5, -60>>, <<0, 0>>,
     <<5, 30>>, <<30, 90>>, <<50, 120>> >>

\* the anchors array of the script's mapPerformanceToAngle: <<percent, angle>>
anchors ==
  << <<-50, -120>>, <<-30, -90>>, <<-5, -30>>, <<0, 0>>,
     <<5, 30>>, <<30, 90>>, <<50, 120>> >>

\* the body of the loop for the pair (anchors[i], anchors[i + 1]), 1-based:
\* a1 + easeOutQuad((clamped - p1) / (p2 - p1)) * (a2 - a1)
staticPiece(i, clamped) ==
  LET p1 == Num(anchors[i][1])
      a1 == Num(anchors[i][2])
      p2 == Num(anchors[i + 1][1])
      a2 == Num(anchors[i + 1][2])
      t == JsDiv(JsSub(clamped, p1), JsSub(p2, p1))
  IN  JsAdd(a1, JsMul(easeOutQuad(t), JsSub(a2, a1)))

\* the for loop of the script's mapPerformanceToAngle from index i on
\* (1-based here): the first bracketing pair returns, no pair returns 0
RECURSIVE anchorLoop(_, _)
anchorLoop(clamped, i) ==
  IF i > Len(anchors) - 1 THEN Num(0)
  ELSE IF /\ JsGe(clamped, Num(anchors[i][1]))
          /\ JsLe(clamped, Num(anchors[i + 1][1]))
         THEN staticPiece(i, clamped)
       ELSE anchorLoop(clamped, i + 1)

staticMapPerformanceToAngle(performancePercent) ==
  LET clamped == MathMax(Num(-50), MathMin(Num(50), performancePercent))
  IN  anchorLoop(clamped, 1)

\* a plausible slip: the slope typed as 2
staticMapBarrierToAngleSlope2(barrierPercent) ==
  LET absBarrier == MathAbs(barrierPercent)
  IN  JsNeg(JsAdd(Num(90), JsMul(JsSub(absBarrier, Num(30)), Num(2))))

\* the script's closed-form mapBarrierToAngle: no clamp
staticMapBarrierToAngle(barrierPercent) ==
  LET absBarrier == MathAbs(barrierPercent)
  IN  JsNeg(JsAdd(Num(90), JsMul(JsSub(absBarrier, Num(30)), Rat(3, 2))))

-----------------------------------------------------------------------------
(* The renderers' use of the mappings *)

\* DynamicLogo: pointerAngle is mapped without a guard
livePointerAngle(d) ==
  mapPerformanceToAngle(calculatePerformance(d.initial_strike_level, d.current_level))

\* DynamicLogo: barrierAngle is 0 unless Number(barrier_percent) is finite
liveBarrierAngle(d) ==
  LET num == ToNumber(d.barrier_percent)
  IN  IF ~NumberIsFinite(num) THEN Num(0) ELSE mapBarrierToAngle(num)

\* generateStaticSVG: pointerAngle, barrierAngle and finalHurdleAngle
staticPointerAngle(d) ==
  staticMapPerformanceToAngle(calculatePerformance(d.initial_strike_level, d.current_level))

staticBarrierAngle(d) == staticMapBarrierToAngle(d.barrier_percent)

staticFinalHurdleAngle(d) ==
  staticMapPerformanceToAngle(JsSub(d.final_hurdle_percent, Num(100)))

-----------------------------------------------------------------------------
(* Bounds and input sets *)

\* integer percents -MaxPct .. MaxPct are tried (the clamp is at 50)
MaxPct == 52

\* half percents -(MaxHalf - 1/2) .. (MaxHalf - 1/2) are tried
MaxHalf == 8

NonFinite == {NaN, PosInf, NegInf, Undefined}

Halves == {Rat(2 * i + 1, 2) : i \in (-MaxHalf)..(MaxHalf - 1)}

PercentInputs ==
  {Num(i) : i \in (-MaxPct)..MaxPct} \cup Halves
    \cup {Num(999), Num(-999)} \cup NonFinite

HurdleInputs ==
  {Num(100 + i) : i \in (-MaxPct)..MaxPct} \cup {JsAdd(Num(100), h) : h \in Halves}
    \cup {Num(999), Num(-999)} \cup NonFinite

StrikeLevels == {Num(7400), Num(100), Num(0), NaN, Undefined}

CurrentLevels ==
  {Num(8140), Num(7400), Num(3700), Num(12000), Num(110), Num(100), Num(98),
   Num(0), NaN, Undefined}

BarrierPercents ==
  {Num(-60), Num(-50), Num(-40), Num(-30), Num(-10), Num(0), Num(30), Num(60),
   NaN, PosInf, Undefined}

FinalHurdlePercents == {Num(100), Num(110)}

-----------------------------------------------------------------------------
(* State *)

VARIABLES
  x1, x2,   \* the two arguments the mapping functions are applied to
  out,      \* per function: <<f(x1), f(x2)>>, or NotCalled
  data,     \* the data record handed to the renderers
  live,     \* what DynamicLogo computed from data, or NotRendered
  static,   \* what generateStaticSVG computed from data, or NotRendered
  call,     \* the last application of a date, angle or path function:
            \* its name, arguments and results, or NoCall
  script    \* the run of generate-static.js: position, file system, log

vars == <<x1, x2, out, data, live, static, call, script>>

NoCall == [fn |-> "none"]

\* generate-static.js not started
ScriptIdle == [pc |-> "idle"]

NotCalled == <<>>

NotRendered == [rendered |-> FALSE]

NoCalls ==
  [perf |-> NotCalled, barrier |-> NotCalled, hurdle |-> NotCalled,
   staticPerf |-> NotCalled, staticBarrier |-> NotCalled]

NoData ==
  [initial_strike_level |-> Num(7400), current_level |-> Num(8140),
   barrier_percent |-> Num(-40), final_hurdle_percent |-> Num(100)]

-----------------------------------------------------------------------------
(* Applying the mapping functions to the chosen arguments *)

CallMapPerformanceToAngle ==
  /\ out' = [out EXCEPT !.perf =
               <<mapPerformanceToAngle(x1), mapPerformanceToAngle(x2)>>]
  /\ UNCHANGED <<call, script, x1, x2, data, live, static>>

CallMapBarrierToAngle ==
  /\ out' = [out EXCEPT !.barrier =
               <<mapBarrierToAngle(x1), mapBarrierToAngle(x2)>>]
  /\ UNCHANGED <<call, script, x1, x2, data, live, static>>

CallStaticMapPerformanceToAngle ==
  /\ out' = [out EXCEPT !.staticPerf =
               <<staticMapPerformanceToAngle(x1), staticMapPerformanceToAngle(x2)>>]
  /\ UNCHANGED <<call, script, x1, x2, data, live, static>>

CallStaticMapBarrierToAngle ==
  /\ out' = [out EXCEPT !.staticBarrier =
               <<staticMapBarrierToAngle(x1), staticMapBarrierToAngle(x2)>>]
  /\ UNCHANGED <<call, script, x1, x2, data, live, static>>

CallMapHurdlePercentToAngle ==
  /\ out' = [out EXCEPT !.hurdle =
               <<mapHurdlePercentToAngle(x1), mapHurdlePercentToAngle(x2)>>]
  /\ UNCHANGED <<call, script, x1, x2, data, live, static>>

\* DynamicLogo's render body, lines 715-729
RenderDynamicLogo ==
  /\ live' = [rendered |-> TRUE,
              performance |->
                calculatePerformance(data.initial_strike_level, data.current_level),
              pointerAngle |-> livePointerAngle(data),
              barrierAngle |-> liveBarrierAngle(data)]
  /\ UNCHANGED <<call, script, x1, x2, out, data, static>>

\* generateStaticSVG, lines 127-131: the angles the picture is drawn from
generateStaticSVG(d) ==
  [rendered |-> TRUE,
   performance |-> calculatePerformance(d.initial_strike_level, d.current_level),
   pointerAngle |-> staticPointerAngle(d),
   barrierAngle |-> staticBarrierAngle(d),
   finalHurdleAngle |-> staticFinalHurdleAngle(d)]

RenderStaticSVG ==
  /\ static' = generateStaticSVG(data)
  /\ UNCHANGED <<call, script, x1, x2, out, data, live>>

-----------------------------------------------------------------------------
(* Specifications *)

\* the performance mappings, both implementations, on two arguments
Init ==
  /\ x1 \in PercentInputs
  /\ x2 \in PercentInputs
  /\ out = NoCalls
  /\ data = NoData
  /\ live = NotRendered
  /\ static = NotRendered
  /\ call = NoCall
  /\ script = ScriptIdle

Next ==
  \/ CallMapPerformanceToAngle
  \/ CallStaticMapPerformanceToAngle

Spec == Init /\ [][Next]_vars

\* the barrier mappings, both implementations, on two arguments
NextBarrier ==
  \/ CallMapBarrierToAngle
  \/ CallStaticMapBarrierToAngle

SpecBarrier == Init /\ [][NextBarrier]_vars

\* the hurdle mapping on two arguments
InitHurdle ==
  /\ x1 \in HurdleInputs
  /\ x2 \in HurdleInputs
  /\ out = NoCalls
  /\ data = NoData
  /\ live = NotRendered
  /\ static = NotRendered
  /\ call = NoCall
  /\ script = ScriptIdle

NextHurdle == CallMapHurdlePercentToAngle

SpecHurdle == InitHurdle /\ [][NextHurdle]_vars

\* the two renderers on one data record
InitRender ==
  /\ x1 = Num(0)
  /\ x2 = Num(0)
  /\ out = NoCalls
  /\ data \in [initial_strike_level : StrikeLevels, current_level : CurrentLevels,
               barrier_percent : BarrierPercents,
               final_hurdle_percent : FinalHurdlePercents]
  /\ live = NotRendered
  /\ static = NotRendered
  /\ call = NoCall
  /\ script = ScriptIdle

NextRender ==
  \/ RenderDynamicLogo
  \/ RenderStaticSVG

SpecRender == InitRender /\ [][NextRender]_vars

-----------------------------------------------------------------------------
(* Properties of the mappings *)

args == <<x1, x2>>

Called(res) == res # NotCalled

Between(lo, v, hi) == NumberIsFinite(v) /\ JsLe(Num(lo), v) /\ JsLe(v, Num(hi))

\* the 7-anchor table of the performance mapping as documented
TableAnchors ==
  << <<-50, -120>>, <<-30, -90>>, <<-5, -30>>, <<0, 0>>,
     <<5, 30>>, <<30, 90>>, <<50, 120>> >>

\* the 9-anchor table of the hurdle mapping as documented
HurdleTable ==
  << <<50, -120>>, <<70, -90>>, <<85, -60>>, <<95, -30>>, <<100, 0>>,
     <<105, 30>>, <<115, 60>>, <<130, 90>>, <<150, 120>> >>

\* C1: both mapPerformanceToAngle versions return the table angle at every
\* anchor percent -50, -30, -5, 0, 5, 30, 50, and at every breakpoint the
\* piece that ends there and the piece that starts there give the angle the
\* function returns, so the mapping is continuous at its breakpoints.
C1_AnchorsExactAndContinuous ==
  \A j \in 1..2 :
    /\ \A i \in 1..Len(TableAnchors) :
         args[j] = Num(TableAnchors[i][1]) =>
           /\ Called(out.perf) => out.perf[j] = Num(TableAnchors[i][2])
           /\ Called(out.staticPerf) => out.staticPerf[j] = Num(TableAnchors[i][2])
    /\ \A i \in 1..(Len(breakpoints) - 2) :
         (args[j] = Num(breakpoints[i + 1]) /\ Called(out.perf)) =>
           /\ perfPiece(i, args[j]) = out.perf[j]
           /\ perfPiece(i + 1, args[j]) = out.perf[j]
    /\ \A i \in 1..(Len(anchors) - 2) :
         (args[j] = Num(anchors[i + 1][1]) /\ Called(out.staticPerf)) =>
           /\ staticPiece(i, args[j]) = out.staticPerf[j]
           /\ staticPiece(i + 1, args[j]) = out.staticPerf[j]

C1_Witness ==
  /\ x1 = Num(-5)
  /\ x2 = Num(30)
  /\ Called(out.perf)
  /\ Called(out.staticPerf)

Monotonic(res) ==
  (/\ Called(res)
   /\ Between(-50, x1, 50)
   /\ Between(-50, x2, 50)
   /\ JsLe(x1, x2)) => JsLe(res[1], res[2])

\* C2: for all p1 <= p2 in [-50, 50] the angle of p1 is at most the angle of
\* p2, in the geometry module and in the static script.
C2_Monotonic == Monotonic(out.perf) /\ Monotonic(out.staticPerf)

C2_Witness ==
  /\ x1 = Num(4)
  /\ x2 = Num(6)
  /\ Called(out.perf)
  /\ Called(out.staticPerf)
  /\ JsLt(out.perf[1], out.perf[2])
  /\ JsLt(out.staticPerf[1], out.staticPerf[2])

ClampsTo(res, lo, hi) ==
  Called(res) =>
    /\ (NumberIsFinite(x1) /\ JsGt(x1, Num(hi)) /\ x2 = Num(hi)) => res[1] = res[2]
    /\ (NumberIsFinite(x1) /\ JsLt(x1, Num(lo)) /\ x2 = Num(lo)) => res[1] = res[2]
    /\ NumberIsFinite(x1) => Between(-120, res[1], 120)

\* C3: every finite input above 50 maps like 50, every finite input below
\* -50 maps like -50, and the angle of a finite input lies in [-120, 120].
C3_ClampsBeforeMapping ==
  ClampsTo(out.perf, -50, 50) /\ ClampsTo(out.staticPerf, -50, 50)

C3_Witness ==
  /\ x1 = Num(999)
  /\ x2 = Num(50)
  /\ Called(out.perf)
  /\ Called(out.staticPerf)

\* the documented mapping: clamp, bracketing pair of the 7-anchor table,
\* t = (p - p1) / (p2 - p1), a1 + t * (2 - t) * (a2 - a1)
referenceAngle(p) ==
  LET c == IF JsLt(p, Num(-50)) THEN Num(-50)
           ELSE IF JsGt(p, Num(50)) THEN Num(50) ELSE p
      i == CHOOSE i \in 1..(Len(TableAnchors) - 1) :
             Between(TableAnchors[i][1], c, TableAnchors[i + 1][1])
      p1 == Num(TableAnchors[i][1])
      a1 == Num(TableAnchors[i][2])
      p2 == Num(TableAnchors[i + 1][1])
      a2 == Num(TableAnchors[i + 1][2])
      t == JsDiv(JsSub(c, p1), JsSub(p2, p1))
  IN  JsAdd(a1, JsMul(JsMul(t, JsSub(Num(2), t)), JsSub(a2, a1)))

\* C4: for every finite input both mapPerformanceToAngle versions equal the
\* eased reference mapping over the 7-anchor table, hence each other.
C4_EqualsEasedReference ==
  \A j \in 1..2 :
    NumberIsFinite(args[j]) =>
      /\ Called(out.perf) => out.perf[j] = referenceAngle(args[j])
      /\ Called(out.staticPerf) => out.staticPerf[j] = referenceAngle(args[j])
      /\ (Called(out.perf) /\ Called(out.staticPerf)) => out.perf[j] = out.staticPerf[j]

C5_Scenario ==
  /\ data.initial_strike_level = Num(7400)
  /\ data.current_level = Num(8140)

\* C5 as stated: with strike 7400 and level 8140 the performance is 10 and
\* the pointer angle is 36.
C5_PointerAngle36 ==
  C5_Scenario =>
    /\ live.rendered => (live.performance = Num(10) /\ live.pointerAngle = Num(36))
    /\ static.rendered =>
         (static.performance = Num(10) /\ static.pointerAngle = Num(36))

\* C5 amended: with strike 7400 and level 8140 the performance is 10, and
\* the pointer angle is 45 with the geometry module's mapPerformanceToAngle
\* and 51.6 with the static script's.
C5_PointerAngle45Or51_6 ==
  C5_Scenario =>
    /\ live.rendered => (live.performance = Num(10) /\ live.pointerAngle = Num(45))
    /\ static.rendered =>
         (static.performance = Num(10) /\ static.pointerAngle = Rat(258, 5))

C5_Witness == C5_Scenario /\ live.rendered /\ static.rendered

\* plain linear interpolation between anchors i and i + 1 of the hurdle table
hurdleLinear(i, v) ==
  LET p1 == Num(HurdleTable[i][1])
      a1 == Num(HurdleTable[i][2])
      p2 == Num(HurdleTable[i + 1][1])
      a2 == Num(HurdleTable[i + 1][2])
  IN  JsAdd(a1, JsMul(JsDiv(JsSub(v, p1), JsSub(p2, p1)), JsSub(a2, a1)))

\* C6: mapHurdlePercentToAngle returns the table angle at each of the nine
\* anchors and, strictly between two adjacent anchors, the linear
\* interpolation of their angles.
C6_HurdleAnchorsAndLinear ==
  Called(out.hurdle) =>
    \A j \in 1..2 : \A i \in 1..Len(HurdleTable) :
      /\ args[j] = Num(HurdleTable[i][1]) => out.hurdle[j] = Num(HurdleTable[i][2])
      /\ (/\ i < Len(HurdleTable)
          /\ NumberIsFinite(args[j])
          /\ JsLt(Num(HurdleTable[i][1]), args[j])
          /\ JsLt(args[j], Num(HurdleTable[i + 1][1])))
           => out.hurdle[j] = hurdleLinear(i, args[j])

C6_Witness ==
  /\ x1 = Num(150)
  /\ x2 = Num(77)
  /\ Called(out.hurdle)

\* C7: mapHurdlePercentToAngle is non-decreasing over all finite inputs,
\* gives -120 below 50 and 120 above 150, and stays within [-120, 120].
C7_HurdleMonotonicClamped ==
  Called(out.hurdle) =>
    /\ (NumberIsFinite(x1) /\ NumberIsFinite(x2) /\ JsLe(x1, x2))
         => JsLe(out.hurdle[1], out.hurdle[2])
    /\ (NumberIsFinite(x1) /\ JsLt(x1, Num(50))) => out.hurdle[1] = Num(-120)
    /\ (NumberIsFinite(x1) /\ JsGt(x1, Num(150))) => out.hurdle[1] = Num(120)
    /\ NumberIsFinite(x1) => Between(-120, out.hurdle[1], 120)

C7_Witness ==
  /\ x1 = Num(49)
  /\ x2 = Num(151)
  /\ Called(out.hurdle)

\* C8: a non-finite or missing input (NaN, undefined, +Infinity, -Infinity)
\* to mapPerformanceToAngle yields angle 0.
C8_NonFiniteGivesZero ==
  \A j \in 1..2 :
    args[j] \in NonFinite =>
      /\ Called(out.perf) => out.perf[j] = Num(0)
      /\ Called(out.staticPerf) => out.staticPerf[j] = Num(0)

\* C9: every barrier percent outside [-50, 50] maps like the nearest of -50
\* and 50, in the geometry module and in the static script, and the barrier
\* angle of a finite input lies in [-120, 120].
C9_BarrierClamps ==
  ClampsTo(out.barrier, -50, 50) /\ ClampsTo(out.staticBarrier, -50, 50)

BreakpointPercents == {Num(breakpoints[i]) : i \in 1..Len(breakpoints)}

-----------------------------------------------------------------------------
(* geometry.js and generate-static.js: dates *)

\* A date argument is a 'YYYY-MM-DD' string, kept as its three numbers, or a
\* Date object, kept as its time value.  Time values are held in hours
\* (3 600 000 ms) so that they fit the checker's integers; every time value
\* tried is a whole number of hours.
DateString(y, m, d) == [t |-> "string", y |-> y, m |-> m, d |-> d]

DateObject(hours) == [t |-> "Date", time |-> hours]

\* days from 1970-01-01 to the civil date y-m-d of the proleptic Gregorian
\* calendar, as the Date constructor computes it for an ISO string
daysFromCivil(y, m, d) ==
  LET yy  == IF m <= 2 THEN y - 1 ELSE y
      era == yy \div 400
      yoe == yy - era * 400
      mp  == IF m > 2 THEN m - 3 ELSE m + 9
      doy == (153 * mp + 2) \div 5 + d - 1
      doe == yoe * 365 + yoe \div 4 - yoe \div 100 + doy
  IN  era * 146097 + doe - 719468

\* new Date(dateStr + 'T00:00:00Z'): UTC midnight of that day
parseDate(dateStr) == DateObject(daysFromCivil(dateStr.y, dateStr.m, dateStr.d) * 24)

\* Date.prototype.getTime
getTime(date) == Num(date.time)

\* 1000 * 60 * 60 * 24 ms, in hours
msPerDay == Num(24)

\* a plausible slip: start and end exchanged in the difference
daysBetweenSwapped(startDate, endDate) ==
  LET start == IF startDate.t = "string" THEN parseDate(startDate) ELSE startDate
      end == IF endDate.t = "string" THEN parseDate(endDate) ELSE endDate
      diffTime == JsSub(getTime(start), getTime(end))
  IN  JsDiv(diffTime, msPerDay)

\* daysBetween of the geometry module
daysBetween(startDate, endDate) ==
  LET start == IF startDate.t = "string" THEN parseDate(startDate) ELSE startDate
      end == IF endDate.t = "string" THEN parseDate(endDate) ELSE endDate
      diffTime == JsSub(getTime(end), getTime(start))
  IN  JsDiv(diffTime, msPerDay)

\* daysBetween of the static script
staticDaysBetween(startDate, endDate) ==
  LET start == IF startDate.t = "string" THEN parseDate(startDate) ELSE startDate
      end == IF endDate.t = "string" THEN parseDate(endDate) ELSE endDate
  IN  JsDiv(JsSub(getTime(end), getTime(start)), msPerDay)

\* a plausible slip: ten calendar years with their leap days
DAYS_IN_10_YEARS_Leap == 10 * 365 + 2

DAYS_IN_10_YEARS == 10 * 365

ANGLE_PER_DAY == JsDiv(Num(360), Num(DAYS_IN_10_YEARS))

calculateRotationAngle(startDate, currentDate) ==
  LET days == daysBetween(startDate, currentDate)
  IN  JsMul(days, ANGLE_PER_DAY)

staticCalculateRotationAngle(startDate, currentDate) ==
  JsMul(staticDaysBetween(startDate, currentDate), ANGLE_PER_DAY)

\* the dates tried: around year ends and leap days, 3650 and 7300 days after
\* 2024-01-01, around the non-leap February of 2100, and two Date objects
\* (2024-01-01T00:00Z and 2024-01-02T00:00Z)
DateStrings ==
  {DateString(2023, 12, 31), DateString(2024, 1, 1), DateString(2024, 1, 2),
   DateString(2024, 2, 28), DateString(2024, 2, 29), DateString(2024, 3, 1),
   DateString(2024, 12, 31), DateString(2025, 1, 1), DateString(2025, 2, 28),
   DateString(2025, 3, 1), DateString(2033, 12, 29), DateString(2043, 12, 27),
   DateString(2100, 2, 28), DateString(2100, 3, 1)}

DateObjects == {DateObject(19723 * 24), DateObject(19724 * 24)}

DateInputs == DateStrings \cup DateObjects

mapVars == <<x1, x2, out, data, live, static>>

MapIdle ==
  /\ x1 = Num(0)
  /\ x2 = Num(0)
  /\ out = NoCalls
  /\ data = NoData
  /\ live = NotRendered
  /\ static = NotRendered

\* each behaviour applies one function to one choice of arguments
CallDaysBetween ==
  /\ call = NoCall
  /\ \E a \in DateInputs, b \in DateInputs, c \in DateInputs :
       call' = [fn |-> "daysBetween", a |-> a, b |-> b, c |-> c,
                aa |-> daysBetween(a, a),
                ab |-> daysBetween(a, b),
                ba |-> daysBetween(b, a),
                bc |-> daysBetween(b, c),
                ac |-> daysBetween(a, c),
                staticAb |-> staticDaysBetween(a, b)]
  /\ UNCHANGED <<mapVars, script>>

CallCalculateRotationAngle ==
  /\ call = NoCall
  /\ \E startDate \in DateInputs, currentDate \in DateInputs :
       call' = [fn |-> "calculateRotationAngle",
                a |-> startDate, b |-> currentDate,
                angle |-> calculateRotationAngle(startDate, currentDate),
                staticAngle |-> staticCalculateRotationAngle(startDate, currentDate)]
  /\ UNCHANGED <<mapVars, script>>

InitPure ==
  /\ MapIdle
  /\ call = NoCall
  /\ script = ScriptIdle

NextDates ==
  \/ CallDaysBetween
  \/ CallCalculateRotationAngle

SpecDates == InitPure /\ [][NextDates]_vars

-----------------------------------------------------------------------------
(* Properties of the date functions *)

IsLeapYear(y) == (y % 4 = 0 /\ y % 100 # 0) \/ y % 400 = 0

MonthLength(y, m) ==
  IF m = 2 THEN (IF IsLeapYear(y) THEN 29 ELSE 28)
  ELSE IF m \in {4, 6, 9, 11} THEN 30 ELSE 31

DaysBeforeYear(y) ==
  365 * (y - 1970) + Cardinality({yy \in 1970..(y - 1) : IsLeapYear(yy)})

RECURSIVE DaysBeforeMonth(_, _)
DaysBeforeMonth(y, m) ==
  IF m <= 1 THEN 0 ELSE DaysBeforeMonth(y, m - 1) + MonthLength(y, m - 1)

\* the day number of a calendar date, counted year by year and month by
\* month from 1970-01-01; a Date object's day is its time value in days
DayNumber(date) ==
  IF date.t = "string"
    THEN DaysBeforeYear(date.y) + DaysBeforeMonth(date.y, date.m) + date.d - 1
  ELSE date.time \div 24

\* C11: daysBetween(a, b) is the signed day count from a to b:
\* daysBetween(d, d) = 0, daysBetween(b, a) = -daysBetween(a, b),
\* daysBetween(a, c) = daysBetween(a, b) + daysBetween(b, c), consecutive
\* days give 1, in the geometry module and in the static script.
C11_SignedDayCount ==
  call.fn = "daysBetween" =>
    /\ call.ab = Num(DayNumber(call.b) - DayNumber(call.a))
    /\ call.staticAb = call.ab
    /\ call.aa = Num(0)
    /\ call.ba = JsNeg(call.ab)
    /\ call.ac = JsAdd(call.ab, call.bc)
    /\ DayNumber(call.b) = DayNumber(call.a) + 1 => call.ab = Num(1)

C11_Witness ==
  /\ call.fn = "daysBetween"
  /\ call.a = DateString(2024, 2, 28)
  /\ call.b = DateString(2024, 2, 29)
  /\ call.c = DateString(2023, 12, 31)
  /\ call.ab = Num(1)

\* C12: calculateRotationAngle(start, current) is the day count from start
\* to current times 360 / 3650: 0 for the same day, 360 after 3650 days,
\* 720 after 7300 days, negative when current precedes start.
C12_RotationAngle ==
  call.fn = "calculateRotationAngle" =>
    LET days == DayNumber(call.b) - DayNumber(call.a)
    IN  /\ call.angle = Rat(days * 360, 3650)
        /\ call.staticAngle = call.angle
        /\ days = 0 => call.angle = Num(0)
        /\ days = 3650 => call.angle = Num(360)
        /\ days = 7300 => call.angle = Num(720)
        /\ days < 0 => JsLt(call.angle, Num(0))

C12_Witness ==
  /\ call.fn = "calculateRotationAngle"
  /\ call.a = DateString(2024, 1, 1)
  /\ call.b = DateString(2043, 12, 27)
  /\ call.angle = Num(720)

-----------------------------------------------------------------------------
(* geometry.js, DynamicLogo: angles and coordinates *)

RECURSIVE whileAbove180(_)
whileAbove180(angle) ==
  IF JsGt(angle, Num(180)) THEN whileAbove180(JsSub(angle, Num(360))) ELSE angle

RECURSIVE whileBelowMinus180(_)
whileBelowMinus180(angle) ==
  IF JsLt(angle, Num(-180)) THEN whileBelowMinus180(JsAdd(angle, Num(360)))
  ELSE angle

RECURSIVE whileAtOrBelowMinus180(_)
whileAtOrBelowMinus180(angle) ==
  IF JsLe(angle, Num(-180)) THEN whileAtOrBelowMinus180(JsAdd(angle, Num(360)))
  ELSE angle

\* normalizeAngle of the geometry module: while (angle > 180) angle -= 360;
\* while (angle < -180) angle += 360
normalizeAngle(angle) == whileBelowMinus180(whileAbove180(angle))

\* normalizeAngle of renderOuterRing: the second loop tests angle <= -180
ringNormalizeAngle(angle) == whileAtOrBelowMinus180(whileAbove180(angle))

\* Radians are kept as rational multiples of pi, so Math.PI is the unit.
MathPI == Num(1)

\* A cosine or sine of a rational number of degrees is kept exactly as
\* sgn * cos(phi degrees) with 0 <= phi <= 90 (sgn = 0 when the value is 0);
\* cos is one-to-one on [0, 90], so equal values have equal representations.
cosOfDegrees(deg) ==
  LET turns == (deg.n) \div (deg.d * 360)
      m == JsSub(deg, Num(360 * turns))
      sgn == IF JsLe(m, Num(90)) \/ JsGe(m, Num(270)) THEN 1 ELSE -1
      phi == IF JsLe(m, Num(90)) THEN m
             ELSE IF JsLe(m, Num(180)) THEN JsSub(Num(180), m)
             ELSE IF JsLt(m, Num(270)) THEN JsSub(m, Num(180))
             ELSE JsSub(Num(360), m)
  IN  [sgn |-> IF phi = Num(90) THEN 0 ELSE sgn, phi |-> phi]

NaNTrig == [sgn |-> 0, phi |-> NaN]

\* Math.cos and Math.sin of a finite argument in units of pi, NaN otherwise
MathCos(x) ==
  IF NumberIsFinite(ToNumber(x)) THEN cosOfDegrees(JsMul(x, Num(180))) ELSE NaNTrig

MathSin(x) ==
  IF NumberIsFinite(ToNumber(x))
    THEN cosOfDegrees(JsSub(JsMul(x, Num(180)), Num(90)))
  ELSE NaNTrig

\* A coordinate is kept exactly as base + the sum of amp * cos(phi degrees)
\* over its terms, phi strictly between 0 and 90 and not 60, amp not 0.
Exact(v) == [base |-> ToNumber(v), terms |-> {}]

\* the amplitude of cos(phi) in coordinate c
AmpOf(c, phi) ==
  IF \E term \in c.terms : term.phi = phi
    THEN (CHOOSE term \in c.terms : term.phi = phi).amp
  ELSE Num(0)

\* c + r * t for a coordinate c, a number r and a cosine or sine value t
PlusTimes(c, r, t) ==
  LET signed == JsMul(r, Num(t.sgn))
  IN  IF ~NumberIsFinite(ToNumber(r)) \/ ~NumberIsFinite(t.phi)
           \/ ~NumberIsFinite(c.base)
        THEN Exact(NaN)
      ELSE IF t.phi = Num(0) \/ t.sgn = 0 \/ signed = Num(0)
        THEN [c EXCEPT !.base = JsAdd(c.base, signed)]
      ELSE IF t.phi = Num(60)
        THEN [c EXCEPT !.base = JsAdd(c.base, JsDiv(signed, Num(2)))]
      ELSE LET amp == JsAdd(AmpOf(c, t.phi), signed)
               rest == {term \in c.terms : term.phi # t.phi}
           IN  [c EXCEPT !.terms =
                  IF amp = Num(0) THEN rest
                  ELSE rest \cup {[phi |-> t.phi, amp |-> amp]}]

VIEWBOX_SIZE == 1024

CENTER == JsDiv(Num(VIEWBOX_SIZE), Num(2))

\* a plausible slip: the quarter turn added instead of subtracted
angleToCoordsPlus90(angleDeg, radius, cx, cy) ==
  LET adjustedAngle == JsAdd(angleDeg, Num(90))
      radians == JsDiv(JsMul(adjustedAngle, MathPI), Num(180))
  IN  [x |-> PlusTimes(cx, radius, MathCos(radians)),
       y |-> PlusTimes(cy, radius, MathSin(radians))]

\* angleToCoords of the geometry module; cx and cy are coordinates
angleToCoords(angleDeg, radius, cx, cy) ==
  LET adjustedAngle == JsSub(angleDeg, Num(90))
      radians == JsDiv(JsMul(adjustedAngle, MathPI), Num(180))
  IN  [x |-> PlusTimes(cx, radius, MathCos(radians)),
       y |-> PlusTimes(cy, radius, MathSin(radians))]

\* angleToCoords of the static script
staticAngleToCoords(angleDeg, radius, cx, cy) ==
  LET adjustedAngle == JsSub(angleDeg, Num(90))
      radians == JsDiv(JsMul(adjustedAngle, MathPI), Num(180))
  IN  [x |-> PlusTimes(cx, radius, MathCos(radians)),
       y |-> PlusTimes(cy, radius, MathSin(radians))]

\* angles -15 * MaxAngleSteps .. 15 * MaxAngleSteps in steps of 15 degrees
MaxAngleSteps == 50

AngleInputs ==
  {Num(15 * i) : i \in (-MaxAngleSteps)..MaxAngleSteps}
    \cup {Num(370), Num(-190), Num(181), Num(-181), Rat(361, 2), Rat(-361, 2),
          Num(36), Num(-72), Num(7)}

RadiusInputs == {Num(0), Num(100), Num(420)}

CentreInputs == {Num(0), Num(256), CENTER}

CallNormalizeAngle ==
  /\ call = NoCall
  /\ \E angle \in AngleInputs :
       call' = [fn |-> "normalizeAngle", angle |-> angle,
                result |-> normalizeAngle(angle),
                ringResult |-> ringNormalizeAngle(angle)]
  /\ UNCHANGED <<mapVars, script>>

CallAngleToCoords ==
  /\ call = NoCall
  /\ \E angleDeg \in AngleInputs, radius \in RadiusInputs,
        cx \in CentreInputs, cy \in CentreInputs :
       call' = [fn |-> "angleToCoords", angle |-> angleDeg, radius |-> radius,
                cx |-> cx, cy |-> cy,
                result |-> angleToCoords(angleDeg, radius, Exact(cx), Exact(cy)),
                staticResult |->
                  staticAngleToCoords(angleDeg, radius, Exact(cx), Exact(cy))]
  /\ UNCHANGED <<mapVars, script>>

\* An SVG path is kept as the sequence of its commands.
MoveTo(p) == [cmd |-> "M", x |-> p.x, y |-> p.y]

LineTo(p) == [cmd |-> "L", x |-> p.x, y |-> p.y]

ArcTo(radius, largeArcFlag, sweepFlag, p) ==
  [cmd |-> "A", rx |-> radius, ry |-> radius, rotation |-> 0,
   largeArc |-> largeArcFlag, sweep |-> sweepFlag, x |-> p.x, y |-> p.y]

ClosePath == [cmd |-> "Z"]

\* a plausible slip: a half turn already counted as a large arc
describeArcAtLeast180(cx, cy, radius, startAngle, endAngle) ==
  LET start == angleToCoords(startAngle, radius, Exact(cx), Exact(cy))
      end == angleToCoords(endAngle, radius, Exact(cx), Exact(cy))
      largeArcFlag ==
        IF JsGe(MathAbs(JsSub(endAngle, startAngle)), Num(180)) THEN 1 ELSE 0
      sweepFlag == IF JsGt(endAngle, startAngle) THEN 1 ELSE 0
  IN  <<MoveTo(start), ArcTo(radius, largeArcFlag, sweepFlag, end)>>

\* describeArc of the geometry module
describeArc(cx, cy, radius, startAngle, endAngle) ==
  LET start == angleToCoords(startAngle, radius, Exact(cx), Exact(cy))
      end == angleToCoords(endAngle, radius, Exact(cx), Exact(cy))
      largeArcFlag ==
        IF JsGt(MathAbs(JsSub(endAngle, startAngle)), Num(180)) THEN 1 ELSE 0
      sweepFlag == IF JsGt(endAngle, startAngle) THEN 1 ELSE 0
  IN  <<MoveTo(start), ArcTo(radius, largeArcFlag, sweepFlag, end)>>

\* the default parameter gapAngle = 3
defaultGapAngle(gapAngle) == IF gapAngle.k = "undef" THEN Num(3) ELSE gapAngle

segmentAngleOf(totalSegments) == JsDiv(Num(360), totalSegments)

segmentStartAngle(segmentIndex, totalSegments, gapAngle) ==
  JsAdd(JsMul(segmentIndex, segmentAngleOf(totalSegments)),
        JsDiv(gapAngle, Num(2)))

\* a plausible slip: the half gap added at the end as well
segmentEndAnglePlusGap(segmentIndex, totalSegments, gapAngle) ==
  JsAdd(JsMul(JsAdd(segmentIndex, Num(1)), segmentAngleOf(totalSegments)),
        JsDiv(gapAngle, Num(2)))

segmentEndAngle(segmentIndex, totalSegments, gapAngle) ==
  JsSub(JsMul(JsAdd(segmentIndex, Num(1)), segmentAngleOf(totalSegments)),
        JsDiv(gapAngle, Num(2)))

\* a plausible slip: the outer arc swept the same way as the inner arc
generateSegmentPathSameSweep(segmentIndex, totalSegments, innerRadius, outerRadius, gapAngle0) ==
  LET gapAngle == defaultGapAngle(gapAngle0)
      startAngle == segmentStartAngle(segmentIndex, totalSegments, gapAngle)
      endAngle == segmentEndAngle(segmentIndex, totalSegments, gapAngle)
      innerStart == angleToCoords(startAngle, innerRadius, Exact(CENTER), Exact(CENTER))
      innerEnd == angleToCoords(endAngle, innerRadius, Exact(CENTER), Exact(CENTER))
      outerStart == angleToCoords(startAngle, outerRadius, Exact(CENTER), Exact(CENTER))
      outerEnd == angleToCoords(endAngle, outerRadius, Exact(CENTER), Exact(CENTER))
      largeArc ==
        IF JsGt(JsSub(segmentAngleOf(totalSegments), gapAngle), Num(180))
          THEN 1 ELSE 0
  IN  <<MoveTo(innerStart), ArcTo(innerRadius, largeArc, 1, innerEnd),
        LineTo(outerEnd), ArcTo(outerRadius, largeArc, 1, outerStart),
        ClosePath>>

\* generateSegmentPath of the geometry module
generateSegmentPath(segmentIndex, totalSegments, innerRadius, outerRadius, gapAngle0) ==
  LET gapAngle == defaultGapAngle(gapAngle0)
      startAngle == segmentStartAngle(segmentIndex, totalSegments, gapAngle)
      endAngle == segmentEndAngle(segmentIndex, totalSegments, gapAngle)
      innerStart == angleToCoords(startAngle, innerRadius, Exact(CENTER), Exact(CENTER))
      innerEnd == angleToCoords(endAngle, innerRadius, Exact(CENTER), Exact(CENTER))
      outerStart == angleToCoords(startAngle, outerRadius, Exact(CENTER), Exact(CENTER))
      outerEnd == angleToCoords(endAngle, outerRadius, Exact(CENTER), Exact(CENTER))
      largeArc ==
        IF JsGt(JsSub(segmentAngleOf(totalSegments), gapAngle), Num(180))
          THEN 1 ELSE 0
  IN  <<MoveTo(innerStart), ArcTo(innerRadius, largeArc, 1, innerEnd),
        LineTo(outerEnd), ArcTo(outerRadius, largeArc, 0, outerStart),
        ClosePath>>

\* generateSegmentPath of the static script (its own CENTER is also 1024 / 2)
staticGenerateSegmentPath(segmentIndex, totalSegments, innerRadius, outerRadius, gapAngle0) ==
  LET gapAngle == defaultGapAngle(gapAngle0)
      startAngle == segmentStartAngle(segmentIndex, totalSegments, gapAngle)
      endAngle == segmentEndAngle(segmentIndex, totalSegments, gapAngle)
      innerStart == staticAngleToCoords(startAngle, innerRadius, Exact(CENTER), Exact(CENTER))
      innerEnd == staticAngleToCoords(endAngle, innerRadius, Exact(CENTER), Exact(CENTER))
      outerStart == staticAngleToCoords(startAngle, outerRadius, Exact(CENTER), Exact(CENTER))
      outerEnd == staticAngleToCoords(endAngle, outerRadius, Exact(CENTER), Exact(CENTER))
      largeArc ==
        IF JsGt(JsSub(segmentAngleOf(totalSegments), gapAngle), Num(180))
          THEN 1 ELSE 0
  IN  <<MoveTo(innerStart), ArcTo(innerRadius, largeArc, 1, innerEnd),
        LineTo(outerEnd), ArcTo(outerRadius, largeArc, 0, outerStart),
        ClosePath>>

\* DynamicLogo: VIEWBOX = 512, CENTER = VIEWBOX / 2
VIEWBOX == 512

logoCENTER == JsDiv(Num(VIEWBOX), Num(2))

\* a plausible slip: the angle measured from 3 o'clock
toRadFromEast(deg) == JsDiv(JsMul(deg, MathPI), Num(180))

\* DynamicLogo: toRad = (deg) => ((deg - 90) * Math.PI) / 180
toRad(deg) == JsDiv(JsMul(JsSub(deg, Num(90)), MathPI), Num(180))

\* DynamicLogo: polarToCart
polarToCart(angle, radius) ==
  [x |-> PlusTimes(Exact(logoCENTER), radius, MathCos(toRad(angle))),
   y |-> PlusTimes(Exact(logoCENTER), radius, MathSin(toRad(angle)))]

\* DynamicLogo's own generateSegmentPath: no default gap, and the large-arc
\* flag is taken from endAngle - startAngle
logoGenerateSegmentPath(index, total, innerR, outerR, gap) ==
  LET startAngle == segmentStartAngle(index, total, gap)
      endAngle == segmentEndAngle(index, total, gap)
      innerStart == polarToCart(startAngle, innerR)
      innerEnd == polarToCart(endAngle, innerR)
      outerStart == polarToCart(startAngle, outerR)
      outerEnd == polarToCart(endAngle, outerR)
      largeArc == IF JsGt(JsSub(endAngle, startAngle), Num(180)) THEN 1 ELSE 0
  IN  <<MoveTo(innerStart), ArcTo(innerR, largeArc, 1, innerEnd),
        LineTo(outerEnd), ArcTo(outerR, largeArc, 0, outerStart), ClosePath>>

\* segment counts 1 .. MaxSegments
MaxSegments == 12

GapInputs ==
  {Undefined, Num(0), Num(3), Num(5), Num(36), Num(180), Num(200), Num(-4)}

SegmentRadii == {<<Num(356), Num(420)>>, <<Num(100), Num(200)>>}

CallDescribeArc ==
  /\ call = NoCall
  /\ \E startAngle \in AngleInputs, endAngle \in AngleInputs,
        c \in {Num(0), CENTER} :
       call' = [fn |-> "describeArc", cx |-> c, cy |-> c, radius |-> Num(100),
                startAngle |-> startAngle, endAngle |-> endAngle,
                path |-> describeArc(c, c, Num(100), startAngle, endAngle)]
  /\ UNCHANGED <<mapVars, script>>

CallGenerateSegmentPath ==
  /\ call = NoCall
  /\ \E total \in 1..MaxSegments, index \in (-1)..MaxSegments,
        radii \in SegmentRadii, gap \in GapInputs :
       call' = [fn |-> "generateSegmentPath", index |-> index, total |-> total,
                innerRadius |-> radii[1], outerRadius |-> radii[2],
                gapAngle |-> gap,
                startAngle |->
                  segmentStartAngle(Num(index), Num(total), defaultGapAngle(gap)),
                endAngle |->
                  segmentEndAngle(Num(index), Num(total), defaultGapAngle(gap)),
                path |-> generateSegmentPath(Num(index), Num(total), radii[1],
                                             radii[2], gap),
                staticPath |->
                  staticGenerateSegmentPath(Num(index), Num(total), radii[1],
                                            radii[2], gap),
                logoPath |->
                  logoGenerateSegmentPath(Num(index), Num(total), radii[1],
                                          radii[2], gap)]
  /\ UNCHANGED <<mapVars, script>>

\* one iteration of avoidCollision's loop over existingAngles; acc holds
\* adjustedAngle and offset
avoidStep(acc, angle, existing, radialOffset, angularJitter) ==
  LET diff == MathAbs(normalizeAngle(JsSub(angle, existing.angle)))
  IN  IF JsLt(diff, Num(5))
        THEN IF ~existing.hasRadialOffset
               THEN [acc EXCEPT !.radialOffset = radialOffset]
             ELSE [acc EXCEPT !.angle =
                     JsAdd(@, JsMul(angularJitter,
                                    IF JsGt(angle, existing.angle)
                                      THEN Num(1) ELSE Num(-1)))]
      ELSE acc

RECURSIVE avoidLoop(_, _, _, _, _)
avoidLoop(acc, angle, existingAngles, radialOffset, angularJitter) ==
  IF existingAngles = <<>> THEN acc
  ELSE avoidLoop(avoidStep(acc, angle, Head(existingAngles), radialOffset,
                           angularJitter),
                 angle, Tail(existingAngles), radialOffset, angularJitter)

\* avoidCollision of the geometry module (radialOffset = 6, angularJitter = 2
\* by default)
avoidCollision(angle, existingAngles, radialOffset0, angularJitter0) ==
  LET radialOffset == IF radialOffset0.k = "undef" THEN Num(6) ELSE radialOffset0
      angularJitter == IF angularJitter0.k = "undef" THEN Num(2) ELSE angularJitter0
  IN  avoidLoop([angle |-> angle, radialOffset |-> Num(0)], angle,
                existingAngles, radialOffset, angularJitter)

\* at most MaxExisting indicators already placed
MaxExisting == 2

CollisionAngles ==
  {Num(-179), Num(-3), Num(0), Num(2), Num(5), Num(10), Num(179)}

ExistingIndicators ==
  [angle : CollisionAngles, hasRadialOffset : BOOLEAN]

ExistingLists ==
  UNION {[1..n -> ExistingIndicators] : n \in 0..MaxExisting}

CallAvoidCollision ==
  /\ call = NoCall
  /\ \E angle \in CollisionAngles, existingAngles \in ExistingLists,
        tuning \in {<<Undefined, Undefined>>, <<Num(8), Num(3)>>} :
       call' = [fn |-> "avoidCollision", angle |-> angle,
                existingAngles |-> existingAngles,
                radialOffset |-> tuning[1], angularJitter |-> tuning[2],
                result |-> avoidCollision(angle, existingAngles, tuning[1],
                                          tuning[2])]
  /\ UNCHANGED <<mapVars, script>>

\* DynamicLogo ring dimensions
logoR_BLUE == 155

BLUE_STROKE == 22

triangleSize == 10

\* renderBarrier: the vertices of the barrier triangle
renderBarrier(barrierAngle) ==
  LET barrierRadius ==
        JsSub(JsSub(Num(logoR_BLUE), JsDiv(Num(BLUE_STROKE), Num(2))), Num(18))
      triangleCenter == polarToCart(barrierAngle, barrierRadius)
      tipAngleRad == toRad(barrierAngle)
      leftAngleRad == toRad(JsAdd(barrierAngle, Num(120)))
      rightAngleRad == toRad(JsSub(barrierAngle, Num(120)))
      vertex(rad) ==
        [x |-> PlusTimes(triangleCenter.x, Num(triangleSize), MathCos(rad)),
         y |-> PlusTimes(triangleCenter.y, Num(triangleSize), MathSin(rad))]
  IN  [barrierRadius |-> barrierRadius, triangleCenter |-> triangleCenter,
       tip |-> vertex(tipAngleRad), left |-> vertex(leftAngleRad),
       right |-> vertex(rightAngleRad)]

CallPolarToCart ==
  /\ call = NoCall
  /\ \E angle \in AngleInputs, radius \in RadiusInputs :
       call' = [fn |-> "polarToCart", angle |-> angle, radius |-> radius,
                result |-> polarToCart(angle, radius)]
  /\ UNCHANGED <<mapVars, script>>

CallRenderBarrier ==
  /\ call = NoCall
  /\ \E barrier_percent \in PercentInputs \cup BarrierPercents :
       LET barrierAngle == liveBarrierAngle([barrier_percent |-> barrier_percent])
       IN  call' = [fn |-> "renderBarrier", barrier_percent |-> barrier_percent,
                    barrierAngle |-> barrierAngle,
                    result |-> renderBarrier(barrierAngle)]
  /\ UNCHANGED <<mapVars, script>>

NextGeometry ==
  \/ CallNormalizeAngle
  \/ CallAngleToCoords
  \/ CallDescribeArc
  \/ CallGenerateSegmentPath
  \/ CallAvoidCollision
  \/ CallPolarToCart
  \/ CallRenderBarrier

SpecGeometry == InitPure /\ [][NextGeometry]_vars

-----------------------------------------------------------------------------
(* Properties of the angle and coordinate functions *)

\* v - w is a whole multiple of 360
CongruentMod360(v, w) ==
  LET q == JsDiv(JsSub(v, w), Num(360))
  IN  NumberIsFinite(q) /\ q.d = 1

InHalfOpenRange(v) == JsGt(v, Num(-180)) /\ JsLe(v, Num(180))

\* C13: normalizeAngle returns, for every finite angle, a value in
\* (-180, 180] that differs from the angle by a multiple of 360; -180 is
\* never returned; in the geometry module and in renderOuterRing.
C13_HalfOpenRange ==
  call.fn = "normalizeAngle" =>
    /\ InHalfOpenRange(call.result)
    /\ CongruentMod360(call.result, call.angle)
    /\ InHalfOpenRange(call.ringResult)
    /\ CongruentMod360(call.ringResult, call.angle)

\* C14: 0 degrees is straight up, angles grow clockwise, y grows downwards:
\* angleToCoords gives (cx, cy - r) at 0, (cx + r, cy) at 90, (cx, cy + r) at
\* 180 and (cx - r, cy) at -90, in the geometry module and the static script.
C14_ClockConvention ==
  call.fn = "angleToCoords" =>
    LET at(x, y) == [x |-> Exact(x), y |-> Exact(y)]
        r == call.radius
        cx == call.cx
        cy == call.cy
    IN  /\ call.staticResult = call.result
        /\ call.angle = Num(0) => call.result = at(cx, JsSub(cy, r))
        /\ call.angle = Num(90) => call.result = at(JsAdd(cx, r), cy)
        /\ call.angle = Num(180) => call.result = at(cx, JsAdd(cy, r))
        /\ call.angle = Num(-90) => call.result = at(JsSub(cx, r), cy)

C14_Witness ==
  /\ call.fn = "angleToCoords"
  /\ call.angle = Num(90)
  /\ call.radius = Num(100)
  /\ call.cx = Num(0)
  /\ call.cy = Num(0)
  /\ call.result = [x |-> Exact(Num(100)), y |-> Exact(Num(0))]

Commands(path) == [i \in 1..Len(path) |-> path[i].cmd]

\* C15: describeArc emits one M command to the start point and one A command
\* to the end point; its large-arc flag is 1 exactly when
\* |endAngle - startAngle| > 180 and its sweep flag is 1 exactly when
\* endAngle > startAngle, so equal angles give flags 0 0.
C15_ArcFlags ==
  call.fn = "describeArc" =>
    LET start == angleToCoords(call.startAngle, call.radius, Exact(call.cx), Exact(call.cy))
        end == angleToCoords(call.endAngle, call.radius, Exact(call.cx), Exact(call.cy))
        span == JsSub(call.endAngle, call.startAngle)
        wide == JsGt(span, Num(180)) \/ JsLt(span, Num(-180))
    IN  /\ Commands(call.path) = <<"M", "A">>
        /\ call.path[1].x = start.x /\ call.path[1].y = start.y
        /\ call.path[2].x = end.x /\ call.path[2].y = end.y
        /\ call.path[2].rx = call.radius /\ call.path[2].ry = call.radius
        /\ call.path[2].largeArc = 1 <=> wide
        /\ call.path[2].largeArc = 0 <=> ~wide
        /\ call.path[2].sweep = 1 <=> JsGt(call.endAngle, call.startAngle)
        /\ call.path[2].sweep = 0 <=> ~JsGt(call.endAngle, call.startAngle)
        /\ call.endAngle = call.startAngle =>
             call.path[2].largeArc = 0 /\ call.path[2].sweep = 0

C15_Witness ==
  /\ call.fn = "describeArc"
  /\ call.startAngle = Num(180)
  /\ call.endAngle = Num(-15)
  /\ call.path[2].largeArc = 1
  /\ call.path[2].sweep = 0

\* the shape claimed for a segment path: M, inner A swept 1 from the start
\* angle to the end angle, L, outer A swept 0 back to the start angle, Z
SegmentShape(path, toCoords(_, _), gap) ==
  LET startAngle == segmentStartAngle(Num(call.index), Num(call.total), gap)
      endAngle == segmentEndAngle(Num(call.index), Num(call.total), gap)
      large == JsGt(JsSub(JsDiv(Num(360), Num(call.total)), gap), Num(180))
      innerStart == toCoords(startAngle, call.innerRadius)
      innerEnd == toCoords(endAngle, call.innerRadius)
      outerStart == toCoords(startAngle, call.outerRadius)
      outerEnd == toCoords(endAngle, call.outerRadius)
  IN  /\ Commands(path) = <<"M", "A", "L", "A", "Z">>
      /\ path[1].x = innerStart.x /\ path[1].y = innerStart.y
      /\ path[2].sweep = 1 /\ path[2].rx = call.innerRadius
      /\ path[2].x = innerEnd.x /\ path[2].y = innerEnd.y
      /\ path[3].x = outerEnd.x /\ path[3].y = outerEnd.y
      /\ path[4].sweep = 0 /\ path[4].rx = call.outerRadius
      /\ path[4].x = outerStart.x /\ path[4].y = outerStart.y
      /\ path[2].largeArc = path[4].largeArc
      /\ path[2].largeArc = (IF large THEN 1 ELSE 0)

C17_SegmentSpans ==
  LET g == defaultGapAngle(call.gapAngle)
      total == Num(call.total)
      i == Num(call.index)
      step == JsDiv(Num(360), total)
      next == (call.index + 1) % call.total
      turn == IF call.index + 1 = call.total THEN Num(360) ELSE Num(0)
      startOf(j) == segmentStartAngle(Num(j), total, g)
      endOf(j) == segmentEndAngle(Num(j), total, g)
  IN  (/\ call.fn = "generateSegmentPath"
       /\ call.index \in 0..(call.total - 1)
       /\ JsLe(Num(0), g) /\ JsLt(g, step))
      => /\ call.startAngle = JsAdd(JsMul(i, step), JsDiv(g, Num(2)))
         /\ call.endAngle = JsSub(JsMul(JsAdd(i, Num(1)), step), JsDiv(g, Num(2)))
         /\ JsSub(call.endAngle, call.startAngle) = JsSub(step, g)
         /\ JsSub(JsAdd(startOf(next), turn), call.endAngle) = g
         /\ \A j \in 0..(call.total - 1) :
              /\ j > call.index => JsLe(call.endAngle, startOf(j))
              /\ j < call.index => JsLe(endOf(j), call.startAngle)
              /\ JsLe(JsSub(endOf(j), Num(360)), call.startAngle)
              /\ JsLe(call.endAngle, JsAdd(startOf(j), Num(360)))

C17_Witness ==
  /\ call.fn = "generateSegmentPath"
  /\ call.index = 9 /\ call.total = 10
  /\ call.gapAngle = Num(3)
  /\ call.startAngle = Rat(651, 2)
  /\ call.endAngle = Rat(717, 2)

\* the distance between two angles around the circle, in [0, 180]
CircularDistance(v, w) == MathAbs(ringNormalizeAngle(JsSub(v, w)))

Conflicting(existing) == JsLt(CircularDistance(call.angle, existing.angle), Num(5))

\* C18: an existing angle farther than 5 degrees (circular distance) never
\* changes the result of avoidCollision; the radial offset is applied when a
\* conflicting angle has no radial offset yet; for a conflicting angle that
\* has one, the angle is moved by angularJitter away from it, so that its
\* circular distance to that existing angle grows.
C18_AvoidsCollision ==
  call.fn = "avoidCollision" =>
    LET conflicts == SelectSeq(call.existingAngles, Conflicting)
        alone(existing) ==
          avoidCollision(call.angle, <<existing>>, call.radialOffset,
                         call.angularJitter)
        wanted == IF call.radialOffset.k = "undef" THEN Num(6) ELSE call.radialOffset
    IN  /\ call.result = avoidCollision(call.angle, conflicts,
                                        call.radialOffset, call.angularJitter)
        /\ conflicts = <<>> =>
             call.result = [angle |-> call.angle, radialOffset |-> Num(0)]
        /\ call.result.radialOffset =
             (IF \E i \in 1..Len(conflicts) : ~conflicts[i].hasRadialOffset
                THEN wanted ELSE Num(0))
        /\ \A i \in 1..Len(conflicts) :
             conflicts[i].hasRadialOffset =>
               JsGt(CircularDistance(alone(conflicts[i]).angle, conflicts[i].angle),
                    CircularDistance(call.angle, conflicts[i].angle))

\* C19: every coordinate DynamicLogo computes with polarToCart / toRad equals
\* what angleToCoords returns for the same angle, radius and centre: the
\* points of polarToCart (centre 256, 256) and the three vertices of the
\* barrier triangle (centre: the triangle's centre; angles barrierAngle,
\* barrierAngle + 120 and barrierAngle - 120).
C19_SingleConvention ==
  /\ call.fn = "polarToCart" =>
       call.result = angleToCoords(call.angle, call.radius,
                                   Exact(logoCENTER), Exact(logoCENTER))
  /\ call.fn = "renderBarrier" =>
       LET r == call.result
           around(angle) ==
             angleToCoords(angle, Num(triangleSize), r.triangleCenter.x,
                           r.triangleCenter.y)
       IN  /\ r.triangleCenter =
                angleToCoords(call.barrierAngle, r.barrierRadius,
                              Exact(logoCENTER), Exact(logoCENTER))
           /\ r.tip = around(call.barrierAngle)
           /\ r.left = around(JsAdd(call.barrierAngle, Num(120)))
           /\ r.right = around(JsSub(call.barrierAngle, Num(120)))
           /\ r.tip = angleToCoords(call.barrierAngle,
                                    JsAdd(r.barrierRadius, Num(triangleSize)),
                                    Exact(logoCENTER), Exact(logoCENTER))

C19_Witness ==
  /\ call.fn = "renderBarrier"
  /\ call.barrier_percent = Num(-50)
  /\ call.barrierAngle = Num(-120)
  /\ call.result.triangleCenter.y = Exact(Num(319))
  /\ call.result.tip.y = Exact(Num(324))
  /\ call.result.left.y = Exact(Num(309))
  /\ call.result.left.x = call.result.triangleCenter.x

-----------------------------------------------------------------------------
(* The static generation script, from its first statement to its exit *)

\* a file that does not exist
Absent == [rendered |-> FALSE]

NotLoaded == [loaded |-> FALSE]

\* contents of input.json
InputFiles ==
  {NoData,
   [NoData EXCEPT !.current_level = Num(6660)],
   [NoData EXCEPT !.current_level = Num(9250)],
   [NoData EXCEPT !.barrier_percent = Num(-30), !.final_hurdle_percent = Num(110)]}

\* a picture left in the output directory by an earlier run
EarlierSvg == generateStaticSVG([NoData EXCEPT !.current_level = Num(7400)])

\* the output directory before the run: missing, or present with or without
\* a logo_<today>.svg and a latest.svg of an earlier run
OutputDirs ==
  {[exists |-> FALSE, dated |-> Absent, latest |-> Absent]}
    \cup [exists : {TRUE}, dated : {Absent, EarlierSvg},
          latest : {Absent, EarlierSvg}]

\* an exception that nothing catches ends the process
Uncaught(step) ==
  script' = [script EXCEPT !.pc = "crashed", !.thrown = step]

\* const data = JSON.parse(fs.readFileSync(inputPath, 'utf-8')), at top level
ReadInput ==
  /\ script.pc = "start"
  /\ \E ok \in BOOLEAN :
       IF ok THEN script' = [script EXCEPT !.pc = "main", !.data = script.input]
       ELSE Uncaught("readFileSync")
  /\ UNCHANGED <<mapVars, call>>

\* main: if (!fs.existsSync(outputDir)) fs.mkdirSync(outputDir, ...)
EnsureOutputDir ==
  /\ script.pc = "main"
  /\ IF script.dir.exists
       THEN script' = [script EXCEPT !.pc = "generate"]
     ELSE \E ok \in BOOLEAN :
            IF ok THEN script' = [script EXCEPT !.pc = "generate",
                                                !.dir.exists = TRUE]
            ELSE Uncaught("mkdirSync")
  /\ UNCHANGED <<mapVars, call>>

\* main: const svg = generateStaticSVG(data)
GenerateSVG ==
  /\ script.pc = "generate"
  /\ script' = [script EXCEPT !.pc = "write",
                              !.svg = generateStaticSVG(script.data)]
  /\ UNCHANGED <<mapVars, call>>

\* main: fs.writeFileSync(svgPath, svg); console.log(`Generated: ...`)
WriteDated ==
  /\ script.pc = "write"
  /\ \E ok \in BOOLEAN :
       IF ok THEN script' = [script EXCEPT !.pc = "unlink",
                                           !.dir.dated = script.svg,
                                           !.log = Append(@, "Generated")]
       ELSE Uncaught("writeFileSync")
  /\ UNCHANGED <<mapVars, call>>

\* a plausible slip: the failure rethrown from the catch block
CaughtLatestRethrown ==
  script' = [script EXCEPT !.pc = "crashed", !.thrown = "latest"]

\* the catch block of main
CaughtLatest ==
  script' = [script EXCEPT !.pc = "final", !.log = Append(@, "Note")]

\* main, in try: if (fs.existsSync(latestPath)) fs.unlinkSync(latestPath)
RemoveLatest ==
  /\ script.pc = "unlink"
  /\ IF script.dir.latest = Absent
       THEN script' = [script EXCEPT !.pc = "copy"]
     ELSE \E ok \in BOOLEAN :
            IF ok THEN script' = [script EXCEPT !.pc = "copy",
                                                !.dir.latest = Absent]
            ELSE CaughtLatest
  /\ UNCHANGED <<mapVars, call>>

\* a plausible slip: the copy made in the wrong direction
CopyLatestReversed ==
  /\ script.pc = "copy"
  /\ \E ok \in BOOLEAN :
       IF ok THEN script' = [script EXCEPT !.pc = "final",
                                           !.dir.dated = script.dir.latest,
                                           !.log = Append(@, "Updated")]
       ELSE CaughtLatest
  /\ UNCHANGED <<mapVars, call>>

\* main, in try: fs.copyFileSync(svgPath, latestPath); console.log(`Updated: ...`)
CopyLatest ==
  /\ script.pc = "copy"
  /\ \E ok \in BOOLEAN :
       IF ok THEN script' = [script EXCEPT !.pc = "final",
                                           !.dir.latest = script.dir.dated,
                                           !.log = Append(@, "Updated")]
       ELSE CaughtLatest
  /\ UNCHANGED <<mapVars, call>>

\* main: the closing console.log lines
FinalLogs ==
  /\ script.pc = "final"
  /\ script' = [script EXCEPT !.pc = "done", !.log = Append(@, "Success")]
  /\ UNCHANGED <<mapVars, call>>

InitScript ==
  /\ MapIdle
  /\ call = NoCall
  /\ script \in [pc : {"start"}, input : InputFiles, dir : OutputDirs,
                 data : {NotLoaded}, svg : {Absent}, log : {<<>>},
                 thrown : {"none"}]

NextScript ==
  \/ ReadInput
  \/ EnsureOutputDir
  \/ GenerateSVG
  \/ WriteDated
  \/ RemoveLatest
  \/ CopyLatest
  \/ FinalLogs

SpecScript == InitScript /\ [][NextScript]_vars

ScriptEnded == script.pc \in {"done", "crashed"}

\* C20: in the static script a file I/O failure is logged and does not abort
\* the primary output write: whichever I/O step fails, when the script ends
\* the dated logo_<date>.svg has been written and no exception has escaped.
C20_IOFailureNeverAborts ==
  ScriptEnded =>
    /\ script.thrown = "none"
    /\ script.dir.dated = generateStaticSVG(script.input)
    /\ "Generated" \in {script.log[i] : i \in 1..Len(script.log)}

Logged(line) == \E i \in 1..Len(script.log) : script.log[i] = line

\* C20, as the script behaves: only a failure of removing or copying
\* latest.svg is caught; it is logged after the dated file has been written,
\* and the run still ends normally with the dated file in place. A failure of
\* reading the input, of creating the output directory or of writing the
\* dated file is not caught: it ends the run before anything is logged, and
\* the dated file of this run is not written.
C20_OnlyLatestFailureIsCaught ==
  /\ Logged("Note") =>
       /\ script.pc \in {"final", "done"}
       /\ script.thrown = "none"
       /\ script.log[1] = "Generated"
       /\ script.dir.dated = generateStaticSVG(script.input)
       /\ ~Logged("Updated")
  /\ script.pc = "done" =>
       /\ script.thrown = "none"
       /\ script.dir.dated = generateStaticSVG(script.input)
       /\ Logged("Note") \/ Logged("Updated")
  /\ script.pc = "crashed" =>
       /\ script.thrown \in {"readFileSync", "mkdirSync", "writeFileSync"}
       /\ script.log = <<>>
       /\ script.dir.dated # generateStaticSVG(script.input)

C20_Witness ==
  /\ script.pc = "done"
  /\ script.log = <<"Generated", "Note", "Success">>
  /\ script.dir.dated = generateStaticSVG(script.input)
  /\ script.dir.latest = Absent

\* C21: after a run of main that completes without a logged latest.svg
\* failure, latest.svg exists with exactly the content of the dated file
\* written in that run; and latest.svg is removed or replaced only after the
\* dated file of the run has been written.
C21_LatestFollowsDated ==
  /\ [](script.pc = "done" /\ ~Logged("Note") =>
          /\ script.dir.latest # Absent
          /\ script.dir.latest = script.dir.dated
          /\ script.dir.dated = generateStaticSVG(script.input))
  /\ [][script'.dir.latest # script.dir.latest =>
          /\ Logged("Generated")
          /\ script.dir.dated = generateStaticSVG(script.input)]_vars

C21_Witness ==
  /\ script.pc = "done"
  /\ script.log = <<"Generated", "Updated", "Success">>
  /\ script.dir.latest = generateStaticSVG(script.input)
  /\ script.dir.latest # EarlierSvg

-----------------------------------------------------------------------------
(* The rings over time: observation ticks and elapsed segments *)

\* calculateObservationTickAngle of the geometry module: the tick's position
\* on the ring, to which the ring's rotation is then applied
calculateObservationTickAngle(startDate, observationDate, currentDate) ==
  LET daysToObservation == daysBetween(startDate, observationDate)
      angleAtObservation == JsMul(daysToObservation, ANGLE_PER_DAY)
      currentRotation == calculateRotationAngle(startDate, currentDate)
  IN  JsNeg(angleAtObservation)

\* generateStaticSVG, observations.forEach: tickAngle already contains
\* rotationAngle
staticTickAngle(start_date, obsDate, rotationAngle) ==
  LET daysToObs == staticDaysBetween(start_date, obsDate)
  IN  JsAdd(JsNeg(JsMul(daysToObs, ANGLE_PER_DAY)), rotationAngle)

\* an element drawn at angle inside <g transform="rotate(rotation, CENTER,
\* CENTER)"> appears at angle + rotation (SVG rotates clockwise, y down)
Rotated(angle, rotation) == JsAdd(angle, rotation)

\* the geometry module's tick on a ring turned by calculateRotationAngle
CallCalculateObservationTickAngle ==
  /\ call = NoCall
  /\ \E startDate \in DateStrings, observationDate \in DateStrings,
        currentDate \in DateStrings :
       LET base == calculateObservationTickAngle(startDate, observationDate,
                                                 currentDate)
           rotation == calculateRotationAngle(startDate, currentDate)
       IN  call' = [fn |-> "calculateObservationTickAngle",
                    start |-> startDate, observation |-> observationDate,
                    current |-> currentDate, base |-> base,
                    rotation |-> rotation,
                    onScreen |-> Rotated(base, rotation)]
  /\ UNCHANGED <<mapVars, script>>

\* the static script's tick: tickAngle of the forEach, drawn inside the blue
\* ring group, which is itself rotated by rotationAngle
DrawStaticTick ==
  /\ call = NoCall
  /\ \E start_date \in DateStrings, obsDate \in DateStrings,
        current_date \in DateStrings :
       LET rotationAngle == staticCalculateRotationAngle(start_date, current_date)
           tickAngle == staticTickAngle(start_date, obsDate, rotationAngle)
       IN  call' = [fn |-> "staticTick",
                    start |-> start_date, observation |-> obsDate,
                    current |-> current_date, base |-> tickAngle,
                    rotation |-> rotationAngle,
                    onScreen |-> Rotated(tickAngle, rotationAngle)]
  /\ UNCHANGED <<mapVars, script>>

\* isSegmentElapsed of the geometry module (rotatedEdge is computed and not
\* used)
isSegmentElapsed(segmentIndex, totalSegments, rotationAngle) ==
  LET segmentAngle == JsDiv(Num(360), totalSegments)
      segmentLeadingEdge == JsMul(JsAdd(segmentIndex, Num(1)), segmentAngle)
      rotatedEdge == normalizeAngle(JsAdd(segmentLeadingEdge, rotationAngle))
  IN  JsGe(rotationAngle, segmentLeadingEdge)

\* generateStaticSVG, segments loop: isElapsed = elapsedAngle > (i + 1) * 36
staticIsElapsed(start_date, current_date, i) ==
  LET elapsedAngle == JsMul(staticDaysBetween(start_date, current_date),
                            ANGLE_PER_DAY)
  IN  JsGt(elapsedAngle, JsMul(JsAdd(i, Num(1)), Num(36)))

\* the ten segments of the ring
RingSegments == 10

\* the elapsed flags of the ring's segments on a current date and on a later
\* one
CallIsSegmentElapsed ==
  /\ call = NoCall
  /\ \E start \in DateStrings, current \in DateStrings, later \in DateStrings :
       /\ JsLe(daysBetween(current, later), Num(0)) => current = later
       /\ LET flags(date) ==
                [i \in 0..(RingSegments - 1) |->
                   isSegmentElapsed(Num(i), Num(RingSegments),
                                    calculateRotationAngle(start, date))]
              staticFlags(date) ==
                [i \in 0..(RingSegments - 1) |->
                   staticIsElapsed(start, date, Num(i))]
          IN  call' = [fn |-> "isSegmentElapsed", start |-> start,
                       current |-> current, later |-> later,
                       rotation |-> calculateRotationAngle(start, current),
                       elapsed |-> flags(current),
                       elapsedLater |-> flags(later),
                       staticElapsed |-> staticFlags(current),
                       staticElapsedLater |-> staticFlags(later)]
  /\ UNCHANGED <<mapVars, script>>

NextRing ==
  \/ CallCalculateObservationTickAngle
  \/ DrawStaticTick
  \/ CallIsSegmentElapsed

SpecRing == InitPure /\ [][NextRing]_vars

\* C22: when the current date equals the observation date, the tick's angle
\* on the screen (its base angle plus the rotation of the ring that contains
\* it) is 0 modulo 360, with calculateObservationTickAngle and with the tick
\* placement of the static script.
C22_TickAtTwelveOnObservationDate ==
  (/\ call.fn \in {"calculateObservationTickAngle", "staticTick"}
   /\ call.current = call.observation)
  => CongruentMod360(call.onScreen, Num(0))

\* C23: segment i is elapsed exactly when rotation >= (i+1)*360/total, in the
\* geometry module and in the static script alike; hence an elapsed segment
\* has every lower segment elapsed, and it stays elapsed on every later
\* current date.
C23_ElapsedInOrder ==
  call.fn = "isSegmentElapsed" =>
    \A i \in 0..(RingSegments - 1) :
      LET crossed == JsGe(call.rotation,
                          JsDiv(Num((i + 1) * 360), Num(RingSegments)))
      IN  /\ call.elapsed[i] <=> crossed
          /\ call.staticElapsed[i] <=> crossed
          /\ \A j \in 0..(i - 1) :
               /\ call.elapsed[i] => call.elapsed[j]
               /\ call.staticElapsed[i] => call.staticElapsed[j]
          /\ call.elapsed[i] => call.elapsedLater[i]
          /\ call.staticElapsed[i] => call.staticElapsedLater[i]

-----------------------------------------------------------------------------
(* DynamicLogo, renderOuterRing: the year bars around 12 o'clock *)

\* the calendar date of a day number (the inverse of daysFromCivil)
civilFromDays(z0) ==
  LET z   == z0 + 719468
      era == z \div 146097
      doe == z - era * 146097
      yoe == (doe - doe \div 1460 + doe \div 36524 - doe \div 146096) \div 365
      doy == doe - (365 * yoe + yoe \div 4 - yoe \div 100)
      mp  == (5 * doy + 2) \div 153
      d   == doy - (153 * mp + 2) \div 5 + 1
      m   == IF mp < 10 THEN mp + 3 ELSE mp - 9
  IN  [y |-> yoe + era * 400 + (IF m <= 2 THEN 1 ELSE 0), m |-> m, d |-> d]

\* new Date(dateString) for a yyyy-mm-dd string: UTC midnight of that day
newDate(dateStr) == DateObject(daysFromCivil(dateStr.y, dateStr.m, dateStr.d) * 24)

civilOf(date) == civilFromDays(date.time \div 24)

\* Date.prototype.getFullYear / setFullYear / getDate / setDate, in a UTC
\* time zone; a day past the end of the month rolls over as in JavaScript
getFullYear(date) == civilOf(date).y

setFullYear(date, year) ==
  DateObject(daysFromCivil(year, civilOf(date).m, civilOf(date).d) * 24
             + (date.time % 24))

getDate(date) == civilOf(date).d

setDate(date, day) ==
  DateObject(daysFromCivil(civilOf(date).y, civilOf(date).m, day) * 24
             + (date.time % 24))

\* a JavaScript value used as a condition
Truthy(v) == v.k = "inf" \/ (v.k = "fin" /\ v.n # 0)

\* const gapAngle = design_tokens?.gap_angle_deg || 5
logoGapAngle(gap_angle_deg) == IF Truthy(gap_angle_deg) THEN gap_angle_deg ELSE Num(5)

\* getPlanYearDates
getPlanYearDates(startDateObj, yearIndex) ==
  LET yearStart == setFullYear(startDateObj, getFullYear(startDateObj) + yearIndex)
      yearEnd0 == setFullYear(startDateObj, getFullYear(startDateObj) + yearIndex + 1)
      yearEnd == setDate(yearEnd0, getDate(yearEnd0) - 1)
  IN  [start |-> yearStart, end |-> yearEnd]

\* Math.min(tenor_years, 10)
maxYearsOf(tenor_years) == IF tenor_years < 10 THEN tenor_years ELSE 10

\* currentPlanYearIndex: the first plan year whose dates contain the current
\* date, else Math.min(Math.max(0, maxYears - 1), maxYears - 1)
currentPlanYearIndexOf(startDateObj, currentDateObj, maxYears) ==
  LET inYear(i) ==
        /\ currentDateObj.time >= getPlanYearDates(startDateObj, i).start.time
        /\ currentDateObj.time <= getPlanYearDates(startDateObj, i).end.time
  IN  IF \E i \in 0..(maxYears - 1) : inYear(i)
        THEN CHOOSE i \in 0..(maxYears - 1) :
               inYear(i) /\ \A j \in 0..(i - 1) : ~inYear(j)
      ELSE maxYears - 1

\* progressInCurrentYear
progressInCurrentYearOf(startDateObj, currentDateObj, currentPlanYearIndex) ==
  LET currentPlanYear == getPlanYearDates(startDateObj, currentPlanYearIndex)
      nextPlanYearStart ==
        setFullYear(currentPlanYear.start, getFullYear(currentPlanYear.start) + 1)
      planYearDuration == JsSub(getTime(nextPlanYearStart), getTime(currentPlanYear.start))
  IN  IF JsGt(planYearDuration, Num(0))
        THEN MathMax(Num(0),
                     MathMin(Num(1),
                             JsDiv(JsSub(getTime(currentDateObj),
                                         getTime(currentPlanYear.start)),
                                   planYearDuration)))
      ELSE Rat(1, 2)

\* const barArc = (360 - 10 * gapAngle) / 10
barArcOf(gapAngle) == JsDiv(JsSub(Num(360), JsMul(Num(10), gapAngle)), Num(10))

\* the left and right edge of the bar of plan year yearIndex
barOf(yearIndex, currentPlanYearIndex, progressInCurrentYear, gapAngle) ==
  LET barArc == barArcOf(gapAngle)
      pitch == JsAdd(barArc, gapAngle)
  IN  IF yearIndex = currentPlanYearIndex
        THEN LET elapsedArc == JsMul(progressInCurrentYear, barArc)
                 remainingArc == JsMul(JsSub(Num(1), progressInCurrentYear), barArc)
             IN  [barStart |-> JsNeg(remainingArc), barEnd |-> elapsedArc]
      ELSE IF yearIndex < currentPlanYearIndex
        THEN LET yearsAgo == currentPlanYearIndex - yearIndex
                 currentElapsedArc == JsMul(progressInCurrentYear, barArc)
                 startOffset ==
                   JsAdd(JsAdd(currentElapsedArc, gapAngle),
                         JsMul(Num(yearsAgo - 1), pitch))
             IN  [barStart |-> startOffset, barEnd |-> JsAdd(startOffset, barArc)]
      ELSE LET yearsAhead == yearIndex - currentPlanYearIndex
               currentRemainingArc ==
                 JsMul(JsSub(Num(1), progressInCurrentYear), barArc)
               endOffset ==
                 JsAdd(JsAdd(currentRemainingArc, gapAngle),
                       JsMul(Num(yearsAhead - 1), pitch))
           IN  [barStart |-> JsSub(JsNeg(endOffset), barArc),
                barEnd |-> JsNeg(endOffset)]

\* generatePartialSegmentPath: the angles are put in increasing order
Piece(startAngle, endAngle, fill) ==
  IF JsGt(startAngle, endAngle)
    THEN [from |-> endAngle, to |-> startAngle, fill |-> fill]
  ELSE [from |-> startAngle, to |-> endAngle, fill |-> fill]

\* the paths pushed for one bar
piecesOf(yearIndex, currentPlanYearIndex, bar) ==
  LET barStart == bar.barStart
      barEnd == bar.barEnd
  IN  IF JsLt(MathAbs(JsSub(barEnd, barStart)), Num(1)) THEN <<>>
      ELSE IF yearIndex = currentPlanYearIndex
        THEN (IF JsLt(barStart, Num(0))
                THEN <<Piece(barStart, MathMin(Num(0), barEnd), "green")>>
              ELSE <<>>)
             \o (IF JsGt(barEnd, Num(0))
                   THEN <<Piece(MathMax(Num(0), barStart), barEnd, "grey")>>
                 ELSE <<>>)
      ELSE IF yearIndex < currentPlanYearIndex
        THEN IF JsLe(barStart, Num(180)) /\ JsGt(barEnd, Num(180))
               THEN <<Piece(barStart, Num(180), "grey"),
                      Piece(Num(-180), JsSub(barEnd, Num(360)), "grey")>>
             ELSE <<Piece(barStart, barEnd, "grey")>>
      ELSE IF JsGe(barEnd, Num(-180)) /\ JsLt(barStart, Num(-180))
        THEN <<Piece(Num(-180), barEnd, "green"),
               Piece(JsAdd(barStart, Num(360)), Num(180), "green")>>
      ELSE <<Piece(barStart, barEnd, "green")>>

\* tenors 1 .. MaxTenor (the Tenor control offers 1 to 15)
MaxTenor == 12

RingStartDates == {DateString(2024, 1, 1), DateString(2024, 2, 29), DateString(2023, 6, 15)}

RingCurrentDates ==
  {DateString(2023, 1, 10), DateString(2023, 6, 15), DateString(2024, 1, 1),
   DateString(2024, 2, 29), DateString(2024, 7, 1), DateString(2024, 12, 31),
   DateString(2025, 1, 1), DateString(2025, 2, 28), DateString(2025, 3, 1),
   DateString(2027, 10, 5), DateString(2028, 2, 29), DateString(2030, 6, 14),
   DateString(2033, 12, 31), DateString(2034, 1, 1), DateString(2036, 5, 5)}

GapTokens == {Undefined, Num(0), Num(3), Num(5), Num(10), Rat(69, 2)}

\* renderOuterRing: each const of the function is computed once, in the
\* order of the code; the bars of the plan years and the paths drawn for them
RenderOuterRing ==
  /\ call = NoCall
  /\ \E start_date \in RingStartDates, current_date \in RingCurrentDates,
        tenor_years \in 1..MaxTenor, gap_angle_deg \in GapTokens :
       \E gapAngle \in {logoGapAngle(gap_angle_deg)},
          startDateObj \in {newDate(start_date)},
          currentDateObj \in {newDate(current_date)},
          maxYears \in {maxYearsOf(tenor_years)} :
         \E currentPlanYearIndex \in
              {currentPlanYearIndexOf(startDateObj, currentDateObj, maxYears)} :
           \E progressInCurrentYear \in
                {progressInCurrentYearOf(startDateObj, currentDateObj,
                                         currentPlanYearIndex)} :
             \E bars \in {[yearIndex \in 0..(maxYears - 1) |->
                             barOf(yearIndex, currentPlanYearIndex,
                                   progressInCurrentYear, gapAngle)]} :
               call' = [fn |-> "renderOuterRing", start_date |-> start_date,
                        current_date |-> current_date, tenor_years |-> tenor_years,
                        gap_angle_deg |-> gap_angle_deg,
                        ring |->
                          [gapAngle |-> gapAngle, maxYears |-> maxYears,
                           currentPlanYearIndex |-> currentPlanYearIndex,
                           progressInCurrentYear |-> progressInCurrentYear,
                           planYears |-> [yearIndex \in 0..(maxYears - 1) |->
                                            getPlanYearDates(startDateObj, yearIndex)],
                           bars |-> bars,
                           segments |-> [yearIndex \in 0..(maxYears - 1) |->
                                           piecesOf(yearIndex, currentPlanYearIndex,
                                                    bars[yearIndex])]]]
  /\ UNCHANGED <<mapVars, script>>

\* generateStaticSVG: tokens.gapAngle = design_tokens?.gap_angle_deg || 3
staticGapAngle(gap_angle_deg) == IF Truthy(gap_angle_deg) THEN gap_angle_deg ELSE Num(3)

\* generateStaticSVG, segments loop: for (let i = 0; i < tenor_years; i++)
\* one path generateSegmentPath(i, 10, innerR, outerR, tokens.gapAngle)
staticSegments(tenor_years, gap_angle_deg) ==
  [i \in 0..(tenor_years - 1) |->
     [from |-> segmentStartAngle(Num(i), Num(10), staticGapAngle(gap_angle_deg)),
      to |-> segmentEndAngle(Num(i), Num(10), staticGapAngle(gap_angle_deg))]]

DrawStaticSegments ==
  /\ call = NoCall
  /\ \E tenor_years \in 1..MaxTenor, gap_angle_deg \in GapTokens :
       call' = [fn |-> "staticSegments", tenor_years |-> tenor_years,
                gap_angle_deg |-> gap_angle_deg,
                segments |-> staticSegments(tenor_years, gap_angle_deg)]
  /\ UNCHANGED <<mapVars, script>>

NextOuterRing ==
  \/ RenderOuterRing
  \/ DrawStaticSegments

SpecOuterRing == InitPure /\ [][NextOuterRing]_vars

\* the plan year whose dates contain the current date, if there is one
ContainsCurrent(yearIndex) ==
  LET planYear == call.ring.planYears[yearIndex]
      current == newDate(call.current_date)
  IN  planYear.start.time <= current.time /\ current.time <= planYear.end.time

Straddles(bar) == JsLe(bar.barStart, Num(0)) /\ JsLe(Num(0), bar.barEnd)

\* C24: 12 o'clock always falls within the current year's bar: for every
\* start_date, current_date and tenor exactly one bar straddles 0 degrees, it
\* is the bar of the plan year whose dates contain current_date, bars of
\* earlier plan years lie entirely at positive angles and bars of later plan
\* years entirely at negative angles.
C24_NowInCurrentYearBar ==
  call.fn = "renderOuterRing" =>
    LET ring == call.ring
        years == 0..(ring.maxYears - 1)
    IN  /\ \E now \in years :
             /\ Straddles(ring.bars[now])
             /\ ContainsCurrent(now)
             /\ \A i \in years :
                  /\ i < now => JsGt(ring.bars[i].barStart, Num(0))
                  /\ i > now => JsLt(ring.bars[i].barEnd, Num(0))
                  /\ i # now => ~Straddles(ring.bars[i])

\* two angular ranges that are the same range on the circle
SameRange(r1, r2) ==
  CongruentMod360(r1.from, r2.from) /\ CongruentMod360(r1.to, r2.to)

\* C25: whatever tenor_years is, neither DynamicLogo nor the static script
\* draws more than 10 year segments, and no two drawn year segments cover
\* the same angular range.
C25_AtMostTenYearSegments ==
  /\ call.fn = "renderOuterRing" =>
       LET drawn == {i \in DOMAIN call.ring.segments : call.ring.segments[i] # <<>>}
           range(i) == [from |-> call.ring.bars[i].barStart,
                        to |-> call.ring.bars[i].barEnd]
       IN  /\ Cardinality(drawn) <= 10
           /\ \A i, j \in drawn : i # j => ~SameRange(range(i), range(j))
  /\ call.fn = "staticSegments" =>
       /\ Cardinality(DOMAIN call.segments) <= 10
       /\ \A i, j \in DOMAIN call.segments :
            i # j => ~SameRange(call.segments[i], call.segments[j])

\* two angular ranges that share more than a boundary point on the circle
OverlapOnCircle(r1, r2) ==
  \E k \in -2..2 :
    /\ JsLt(JsAdd(r1.from, Num(360 * k)), r2.to)
    /\ JsLt(r2.from, JsAdd(r1.to, Num(360 * k)))

RingBar(i) ==
  [from |-> call.ring.bars[i].barStart, to |-> call.ring.bars[i].barEnd]

RECURSIVE TotalWidth(_)
TotalWidth(pieces) ==
  IF pieces = <<>> THEN Num(0)
  ELSE JsAdd(JsSub(Head(pieces).to, Head(pieces).from), TotalWidth(Tail(pieces)))

\* C29: for every tenor_years, gap angle g in [0, 35), start_date and
\* current_date, the year bars of DynamicLogo's outer ring all have the width
\* (360 - 10*g)/10, neighbouring bars are separated by exactly g, and no two
\* bars overlap on the circle, also where a bar is split at +/-180.
C29_EqualBarsEqualGaps ==
  (/\ call.fn = "renderOuterRing"
   /\ JsLe(Num(0), call.gap_angle_deg)
   /\ JsLt(call.gap_angle_deg, Num(35)))
  => LET g == call.gap_angle_deg
         years == DOMAIN call.ring.bars
         width == JsDiv(JsSub(Num(360), JsMul(Num(10), g)), Num(10))
         pieces(i) == call.ring.segments[i]
     IN  \A i \in years :
           /\ JsSub(RingBar(i).to, RingBar(i).from) = width
           /\ pieces(i) # <<>>
           /\ TotalWidth(pieces(i)) = width
           \* plan year i + 1 is the next bar towards negative angles
           /\ (i + 1) \in years =>
                JsSub(RingBar(i).from, RingBar(i + 1).to) = g
           /\ \A j \in years :
                i # j =>
                  /\ ~OverlapOnCircle(RingBar(i), RingBar(j))
                  /\ \A a \in 1..Len(pieces(i)), b \in 1..Len(pieces(j)) :
                       ~OverlapOnCircle(pieces(i)[a], pieces(j)[b])
           /\ \A a, b \in 1..Len(pieces(i)) :
                a # b => ~OverlapOnCircle(pieces(i)[a], pieces(i)[b])

(***************************************************************************)
(* The App component (src/App.jsx 5-131) and the animation effect of       *)
(* DynamicLogo (744-763).  Under SpecApp the variable data holds the       *)
(* App's data record, live holds the mounted DynamicLogo (its animate      *)
(* prop, the dependencies its effect last ran with, the cleanup function   *)
(* the effect returned and the gsap contexts that are live) and call       *)
(* names the handler that ran last.  React runs the pending effect of a    *)
(* render before it renders the next update, so a handler runs only when   *)
(* no effect is pending.                                                   *)
(***************************************************************************)
Null == [t |-> "null"]

NoDeps == <<>>

\* import inputData from '../input.json': the record of an active plan, or
\* of a plan called on an earlier date.
InitialData ==
  {[plan_name |-> "Mariana", tenor_years |-> 10,
    start_date |-> DateString(2024, 1, 1), current_date |-> DateString(2025, 3, 1),
    is_called |-> c # Null, called_date |-> c]
     : c \in {Null, DateString(2024, 7, 1)}}

AppDates == {DateString(2024, 1, 1), DateString(2024, 7, 1), DateString(2025, 3, 1)}

PlanNames == {"Mariana", "Atlantic"}

AppTenors == {3, 10}

updateField(prev, field, value) == [prev EXCEPT ![field] = value]

toggleCalledKeepsDate(prev) ==
  [prev EXCEPT !.is_called = ~prev.is_called,
               !.called_date = IF ~prev.is_called THEN prev.current_date
                               ELSE prev.called_date]
toggleCalled(prev) ==
  [prev EXCEPT !.is_called = ~prev.is_called,
               !.called_date = IF ~prev.is_called THEN prev.current_date ELSE Null]

Rerender == [live EXCEPT !.pending = TRUE]

HandlerMayRun == live.mounted /\ ~live.pending

ToggleCalled ==
  /\ HandlerMayRun
  /\ data' = toggleCalled(data)
  /\ live' = Rerender
  /\ call' = [fn |-> "toggleCalled"]
  /\ UNCHANGED <<x1, x2, out, static, script>>

\* randomizeAll: every Math.random() is a choice of its own.
RandomizeAll ==
  /\ HandlerMayRun
  /\ \E tenorYears \in AppTenors, startDate \in AppDates, currentDate \in AppDates,
        name \in PlanNames, called \in BOOLEAN, dated \in BOOLEAN :
       /\ daysFromCivil(startDate.y, startDate.m, startDate.d)
            <= daysFromCivil(currentDate.y, currentDate.m, currentDate.d)
       /\ daysFromCivil(currentDate.y, currentDate.m, currentDate.d)
            <= daysFromCivil(startDate.y + tenorYears - 1, 12, 31)
       /\ data' = [data EXCEPT !.plan_name = name,
                               !.tenor_years = tenorYears,
                               !.start_date = startDate,
                               !.current_date = currentDate,
                               !.is_called = called,
                               !.called_date = IF dated THEN currentDate ELSE Null]
  /\ live' = Rerender
  /\ call' = [fn |-> "randomizeAll"]
  /\ UNCHANGED <<x1, x2, out, static, script>>

\* The Current Date input: updateField('current_date', e.target.value).
EditCurrentDate ==
  /\ HandlerMayRun
  /\ \E value \in AppDates :
       /\ daysFromCivil(data.start_date.y, data.start_date.m, data.start_date.d)
            <= daysFromCivil(value.y, value.m, value.d)
       /\ data' = updateField(data, "current_date", value)
  /\ live' = Rerender
  /\ call' = [fn |-> "updateField", field |-> "current_date"]
  /\ UNCHANGED <<x1, x2, out, static, script>>

\* The Called Date input: updateField('called_date', e.target.value || null).
EditCalledDate ==
  /\ HandlerMayRun
  /\ \E value \in AppDates \cup {Null} :
       data' = updateField(data, "called_date", value)
  /\ live' = Rerender
  /\ call' = [fn |-> "updateField", field |-> "called_date"]
  /\ UNCHANGED <<x1, x2, out, static, script>>

\* The animation checkbox: setAnimate(e.target.checked).
SetAnimate ==
  /\ HandlerMayRun
  /\ live' = [live EXCEPT !.animate = ~live.animate, !.pending = TRUE]
  /\ call' = [fn |-> "setAnimate"]
  /\ UNCHANGED <<x1, x2, out, data, static, script>>

\* What the effect's body leaves behind when it runs with the given values.
effectBody(state, animate, is_called) ==
  IF ~animate \/ is_called
    THEN [state EXCEPT !.cleanup = FALSE]
    ELSE [state EXCEPT !.contexts = @ + 1, !.cleanup = TRUE]

\* ctx.revert(), the cleanup the effect returned, if it returned one.
runCleanup(state) ==
  IF state.cleanup THEN [state EXCEPT !.contexts = @ - 1, !.cleanup = FALSE] ELSE state

useEffectNoRevert(state, animate, is_called) ==
  IF state.deps = <<animate, is_called>>
    THEN [state EXCEPT !.pending = FALSE]
    ELSE [effectBody(state, animate, is_called)
            EXCEPT !.deps = <<animate, is_called>>, !.pending = FALSE]
useEffect(state, animate, is_called) ==
  IF state.deps = <<animate, is_called>>
    THEN [state EXCEPT !.pending = FALSE]
    ELSE [effectBody(runCleanup(state), animate, is_called)
            EXCEPT !.deps = <<animate, is_called>>, !.pending = FALSE]

RunEffect ==
  /\ live.mounted
  /\ live.pending
  /\ live' = useEffect(live, live.animate, data.is_called)
  /\ UNCHANGED <<x1, x2, out, data, static, call, script>>

Unmount ==
  /\ live.mounted
  /\ live' = [runCleanup(live) EXCEPT !.mounted = FALSE, !.pending = FALSE]
  /\ call' = [fn |-> "unmount"]
  /\ UNCHANGED <<x1, x2, out, data, static, script>>

InitApp ==
  /\ x1 = Num(0)
  /\ x2 = Num(0)
  /\ out = NoCalls
  /\ data \in InitialData
  /\ live = [mounted |-> TRUE, animate |-> TRUE, deps |-> NoDeps,
             pending |-> TRUE, cleanup |-> FALSE, contexts |-> 0]
  /\ static = NotRendered
  /\ call = NoCall
  /\ script = ScriptIdle

NextApp ==
  \/ ToggleCalled
  \/ RandomizeAll
  \/ EditCurrentDate
  \/ EditCalledDate
  \/ SetAnimate
  \/ RunEffect
  \/ Unmount

SpecApp == InitApp /\ [][NextApp]_vars

\* C26: once the effect of the last render has run, the rotation animation
\* is live exactly when animate is true and is_called is false; never more
\* than one animation context is live, and none is after unmounting.
C26_OneContextWhenAnimating ==
  /\ live.contexts \in {0, 1}
  /\ live.mounted /\ ~live.pending =>
       (live.contexts = 1 <=> live.animate /\ ~data.is_called)
  /\ ~live.mounted => live.contexts = 0

\* The animation was stopped by a call, restarted, and is running again.
C26_Witness ==
  /\ call.fn = "toggleCalled"
  /\ ~data.is_called
  /\ live.mounted
  /\ ~live.pending
  /\ live.deps = <<TRUE, FALSE>>
  /\ live.contexts = 1

\* C27 as stated: toggleCalled flips is_called, sets called_date to the
\* state's own current_date when the plan becomes called and to null when it
\* becomes active, changes no other field, and applied twice gives back
\* is_called and leaves called_date null, whatever the record it starts from.
C27_ToggleTwiceLeavesNull ==
  LET once == toggleCalled(data)
      twice == toggleCalled(once)
  IN /\ once.is_called = ~data.is_called
     /\ once.called_date = IF data.is_called THEN Null ELSE data.current_date
     /\ \A f \in DOMAIN data \ {"is_called", "called_date"} : once[f] = data[f]
     /\ twice.is_called = data.is_called
     /\ twice.called_date = Null

\* C27, amended: toggleCalled flips is_called, sets called_date to the
\* state's own current_date when the plan becomes called and to null when it
\* becomes active, and changes no other field; applied twice it gives back
\* is_called, with called_date null for a record that was active and
\* called_date equal to current_date for a record that was called.
C27_ToggleCalledFrame ==
  LET once == toggleCalled(data)
      twice == toggleCalled(once)
  IN /\ once.is_called = ~data.is_called
     /\ once.called_date = IF data.is_called THEN Null ELSE data.current_date
     /\ DOMAIN once = DOMAIN data
     /\ \A f \in DOMAIN data \ {"is_called", "called_date"} : once[f] = data[f]
     /\ twice.is_called = data.is_called
     /\ data.is_called => twice.called_date = data.current_date
     /\ ~data.is_called => twice.called_date = Null
     /\ call.fn = "toggleCalled" =>
          data.called_date = IF data.is_called THEN data.current_date ELSE Null

\* A called plan with an older called date was made active again.
C27_Witness ==
  /\ call.fn = "toggleCalled"
  /\ ~data.is_called
  /\ data.called_date = Null
  /\ data.plan_name = "Atlantic"
  /\ data.current_date = DateString(2025, 3, 1)

DateNotLater(a, b) == daysFromCivil(a.y, a.m, a.d) <= daysFromCivil(b.y, b.m, b.d)

\* C28: called_date is non-null only if is_called is true, and whenever
\* is_called is true called_date is a date not later than current_date.
C28_CalledDateInvariant ==
  /\ data.called_date # Null => data.is_called
  /\ data.is_called =>
       /\ data.called_date # Null
       /\ DateNotLater(data.called_date, data.current_date)

(***************************************************************************)
(* The design-token controls (src/App.jsx 31-39, 560-622).  The text a     *)
(* control hands to its handler is a sequence of characters; a JavaScript  *)
(* string value is wrapped by Str so that it differs from every number.    *)
(* Under SpecTokens data holds the App's record, call the last handler     *)
(* call with the record it was applied to.                                 *)
(***************************************************************************)
Str(chars) == [k |-> "str", chars |-> chars]

\* parseFloat of a text without leading blanks, exponent or "Infinity": the
\* longest prefix of the form [+-] digits [. digits], NaN if it has no digit.
parseFloat(text) ==
  LET Digits == <<"0", "1", "2", "3", "4", "5", "6", "7", "8", "9">>
      IsDigit(i) == i <= Len(text) /\ \E v \in 1..10 : Digits[v] = text[i]
      DigitAt(i) == (CHOOSE v \in 1..10 : Digits[v] = text[i]) - 1
      Run(from) ==
        CHOOSE n \in 0..Len(text) :
          /\ \A i \in from..(from + n - 1) : IsDigit(i)
          /\ ~IsDigit(from + n)
      Value[k \in 0..Len(text)] ==
        [from \in 1..(Len(text) + 2) |->
           IF k = 0 THEN 0 ELSE Value[k - 1][from] * 10 + DigitAt(from + k - 1)]
      Pow10[k \in 0..Len(text)] == IF k = 0 THEN 1 ELSE 10 * Pow10[k - 1]
      signed == Len(text) > 0 /\ text[1] \in {"-", "+"}
      first == IF signed THEN 2 ELSE 1
      whole == Run(first)
      dot == first + whole
      frac == IF dot <= Len(text) /\ text[dot] = "." THEN Run(dot + 1) ELSE 0
      magnitude ==
        Rat(Value[whole][first] * Pow10[frac] + Value[frac][dot + 1], Pow10[frac])
  IN  IF whole = 0 /\ frac = 0 THEN NaN
      ELSE IF signed /\ text[1] = "-" THEN JsNeg(magnitude)
      ELSE magnitude

updateDesignToken(prev, key, value) ==
  [prev EXCEPT !.design_tokens = [@ EXCEPT ![key] = parseFloat(value)]]

\* The options of the Pointer Ease select.
PointerEaseOptions ==
  {<<"e", "a", "s", "e", "O", "u", "t", "Q", "u", "a", "d">>,
   <<"e", "a", "s", "e", "I", "n", "Q", "u", "a", "d">>,
   <<"e", "a", "s", "e", "I", "n", "O", "u", "t", "Q", "u", "a", "d">>,
   <<"l", "i", "n", "e", "a", "r">>}

\* Texts a number input hands over, each with the number it shows.
NumberTexts ==
  {[text |-> <<"0">>, number |-> Num(0)],
   [text |-> <<"3">>, number |-> Num(3)],
   [text |-> <<"3", ".", "5">>, number |-> Rat(7, 2)],
   [text |-> <<"1", "2", ".", "2", "5">>, number |-> Rat(49, 4)],
   [text |-> <<"-", "2">>, number |-> Num(-2)],
   [text |-> <<"-", "0", ".", "5">>, number |-> Rat(-1, 2)]}

NumericTokens == {"gap_angle_deg", "tick_stroke_width"}

\* What each control offers: the key it edits, the text it passes to the
\* handler and the value that text stands for.
TokenControls ==
  {[key |-> key, value |-> t.text, offered |-> t.number]
     : key \in NumericTokens, t \in NumberTexts}
  \cup {[key |-> "pointer_ease", value |-> o, offered |-> Str(o)]
          : o \in PointerEaseOptions}

UpdateDesignToken ==
  /\ \E control \in TokenControls :
       /\ data' = updateDesignToken(data, control.key, control.value)
       /\ call' = [fn |-> "updateDesignToken", control |-> control, prev |-> data]
  /\ UNCHANGED <<x1, x2, out, live, static, script>>

InitTokens ==
  /\ x1 = Num(0)
  /\ x2 = Num(0)
  /\ out = NoCalls
  /\ data = [plan_name |-> "Mariana", is_called |-> FALSE,
             design_tokens |->
               [gap_angle_deg |-> Num(5), tick_stroke_width |-> Num(2),
                pointer_ease |-> Str(<<"e", "a", "s", "e", "O", "u", "t", "Q", "u", "a", "d">>)]]
  /\ live = NotRendered
  /\ static = NotRendered
  /\ call = NoCall
  /\ script = ScriptIdle

SpecTokens == InitTokens /\ [][UpdateDesignToken]_vars

\* C30: after updateDesignToken(key, value) the record holds under
\* design_tokens[key] the value the control offered, every other token and
\* field is unchanged, and no numeric token is NaN.
C30_TokenHoldsOfferedValue ==
  /\ call.fn = "updateDesignToken" =>
       /\ data.design_tokens[call.control.key] = call.control.offered
       /\ \A k \in DOMAIN data.design_tokens \ {call.control.key} :
            data.design_tokens[k] = call.prev.design_tokens[k]
       /\ \A f \in DOMAIN data \ {"design_tokens"} : data[f] = call.prev[f]
  /\ \A k \in NumericTokens : data.design_tokens[k] # NaN
====
